---- MODULE Spec2Model ----
(***************************************************************************)
(* State-machine model of the missile-intercept trajectory classes         *)
(* (src/src/missiles_abstract.py, missiles_ballistic.py,                   *)
(* missiles_interceptor.py) and of the geodetic helpers they call          *)
(* (src/Code/Utils/geo_utils.py).                                          *)
(*                                                                         *)
(* Numbers.  Python/numpy floats are modelled as exact rationals extended  *)
(* with +inf, -inf and nan, with the IEEE-754 rules numpy applies (a       *)
(* division by zero yields inf or nan, it does not raise).  Floating-point *)
(* rounding error is not modelled.                                         *)
(*                                                                         *)
(* Units.  Elapsed time is counted in units of 0.001 s, so that            *)
(* round(t, 3) is rounding to the nearest whole unit.  Altitude is         *)
(* counted in the unit that makes the gravity constant equal to -2 per     *)
(* squared time unit.  Ground distance is counted in an arbitrary unit.    *)
(*                                                                         *)
(* Geometry.  All points lie on one meridian, away from the poles, and     *)
(* latitude is counted in the unit of arc that spans one unit of ground    *)
(* distance.  On a meridian the haversine distance is the absolute         *)
(* difference of latitudes, the initial bearing is 0 (north) or 180        *)
(* (south), and the destination point is the origin moved along the        *)
(* meridian.                                                               *)
(***************************************************************************)
EXTENDS Integers, Sequences, FiniteSets, TLC

VARIABLES missile, target, interceptor, call, main

vars == <<missile, target, interceptor, call, main>>

(***************************************************************************)
(* Extended rational numbers                                               *)
(***************************************************************************)
RECURSIVE Gcd(_, _)
Gcd(a, b) == IF b = 0 THEN a ELSE Gcd(b, a % b)

AbsInt(n) == IF n < 0 THEN -n ELSE n

SignInt(n) == IF n < 0 THEN -1 ELSE IF n > 0 THEN 1 ELSE 0

\* The rational n/d (d # 0) in lowest terms with a positive denominator.
Rat(n, d) ==
    LET g == Gcd(AbsInt(n), AbsInt(d))
        s == IF d < 0 THEN -1 ELSE 1
    IN  [k |-> "fin", n |-> (s * n) \div g, d |-> AbsInt(d) \div g]

Num(n) == [k |-> "fin", n |-> n, d |-> 1]

Zero == Num(0)

PosInf == [k |-> "inf", n |-> 1, d |-> 1]

NegInf == [k |-> "inf", n |-> -1, d |-> 1]

NaN == [k |-> "nan", n |-> 0, d |-> 1]

\* A dictionary key that is not present (a lookup raises KeyError).
Absent == [k |-> "absent", n |-> 0, d |-> 1]

\* Python's None.
None == [none |-> TRUE]

IsFin(a) == a.k = "fin"

IsInf(a) == a.k = "inf"

IsNaN(a) == a.k = "nan"

Inf(s) == IF s < 0 THEN NegInf ELSE PosInf

\* Sign of a number that is not nan: -1, 0 or 1.
Sgn(a) == SignInt(a.n)

Neg(a) == IF IsNaN(a) THEN NaN ELSE [a EXCEPT !.n = -a.n]

Add(a, b) ==
    IF IsNaN(a) \/ IsNaN(b) THEN NaN
    ELSE IF IsInf(a) /\ IsInf(b) THEN (IF a.n = b.n THEN a ELSE NaN)
    ELSE IF IsInf(a) THEN a
    ELSE IF IsInf(b) THEN b
    ELSE Rat(a.n * b.d + b.n * a.d, a.d * b.d)

Sub(a, b) == Add(a, Neg(b))

Mul(a, b) ==
    IF IsNaN(a) \/ IsNaN(b) THEN NaN
    ELSE IF IsInf(a) \/ IsInf(b)
         THEN (IF Sgn(a) = 0 \/ Sgn(b) = 0 THEN NaN ELSE Inf(Sgn(a) * Sgn(b)))
    ELSE Rat(a.n * b.n, a.d * b.d)

\* numpy float64 division: x/0 is +-inf, 0/0 is nan, and nothing is raised.
Div(a, b) ==
    IF IsNaN(a) \/ IsNaN(b) THEN NaN
    ELSE IF IsInf(a) THEN (IF IsInf(b) THEN NaN
                           ELSE Inf(a.n * (IF Sgn(b) < 0 THEN -1 ELSE 1)))
    ELSE IF IsInf(b) THEN Zero
    ELSE IF b.n = 0 THEN (IF a.n = 0 THEN NaN ELSE Inf(Sgn(a)))
    ELSE Rat(a.n * b.d, a.d * b.n)

Square(a) == Mul(a, a)

AbsNum(a) == IF IsNaN(a) THEN NaN ELSE [a EXCEPT !.n = AbsInt(a.n)]

\* Results of calls: the exception raised ("none" when the call returns) and
\* the value returned, or the object as the call leaves it.
Ok(v) == [err |-> "none", val |-> v]

Raise(e) == [err |-> e, val |-> None]

\* IEEE comparisons: every comparison with nan is false.
Lt(a, b) ==
    IF IsNaN(a) \/ IsNaN(b) THEN FALSE
    ELSE IF IsInf(a) THEN a.n < 0 /\ a # b
    ELSE IF IsInf(b) THEN b.n > 0
    ELSE a.n * b.d < b.n * a.d

Gt(a, b) == Lt(b, a)

Ge(a, b) == ~IsNaN(a) /\ ~IsNaN(b) /\ ~Lt(a, b)

Le(a, b) == Ge(b, a)

\* Python's max(a, b): b when b > a, else a (so max(nan, 0) is nan).
PyMax(a, b) == IF Gt(b, a) THEN b ELSE a

\* Floor and ceiling of a finite rational, as integers.
FloorInt(a) == a.n \div a.d

CeilInt(a) == -((-a.n) \div a.d)

\* A finite number rounded to the nearest integer, ties to even.
RoundHalfEven(a) ==
    LET f == FloorInt(a)
        twice == 2 * (a.n - f * a.d)
    IN  IF twice < a.d THEN Num(f)
        ELSE IF twice > a.d THEN Num(f + 1)
        ELSE IF f % 2 = 0 THEN Num(f) ELSE Num(f + 1)

\* round(a, 3) of a time in units of 0.001 s: the nearest whole unit.
Round3(a) == IF IsFin(a) THEN RoundHalfEven(a) ELSE a

\* timedelta(seconds=a): a duration at microsecond resolution; a value that
\* is not finite raises (OverflowError for inf, ValueError for nan).
timedelta(a) ==
    IF IsInf(a) THEN Raise("OverflowError")
    ELSE IF IsNaN(a) THEN Raise("ValueError")
    ELSE Ok(Div(RoundHalfEven(Mul(a, Num(1000))), Num(1000)))

(***************************************************************************)
(* Symbolic values of the transcendental functions.  A square root is kept *)
(* as its radicand and an angle as its direction (sine and cosine up to a  *)
(* common positive factor), so that no irrational value is approximated.   *)
(***************************************************************************)
\* np.sqrt(a)
Sqrt(a) ==
    IF IsNaN(a) \/ Sgn(a) < 0 THEN NaN
    ELSE IF IsInf(a) THEN PosInf
    ELSE [sqrt_of |-> a]

\* np.arctan(a), as the direction of the angle.
Arctan(a) ==
    IF IsNaN(a) THEN NaN
    ELSE IF IsInf(a) THEN [sin |-> a.n, cos |-> 0]
    ELSE [sin |-> a.n, cos |-> a.d]

\* np.arctan2(y, x), as the direction of the angle.
Arctan2(y, x) ==
    IF IsNaN(y) \/ IsNaN(x) THEN NaN
    ELSE IF IsInf(y) /\ IsInf(x) THEN [sin |-> y.n, cos |-> x.n]
    ELSE IF IsInf(y) THEN [sin |-> y.n, cos |-> 0]
    ELSE IF IsInf(x) THEN [sin |-> 0, cos |-> x.n]
    ELSE IF y.n = 0 /\ x.n = 0 THEN [sin |-> 0, cos |-> 1]
    ELSE LET s == y.n * x.d
             c == x.n * y.d
             g == Gcd(AbsInt(s), AbsInt(c))
         IN  [sin |-> s \div g, cos |-> c \div g]

(***************************************************************************)
(* Geodetic helpers (src/Code/Utils/geo_utils.py) on the meridian          *)
(***************************************************************************)
\* The longitude of the meridian all points lie on.
MeridianLon == Zero

\* A (lat, lon) pair of decimal degrees.
Point(lat_deg, lon_deg) == [lat |-> lat_deg, lon |-> lon_deg]

LatLon(lat) == Point(Num(lat), MeridianLon)

\* rad_to_deg is a change of unit: it keeps the direction of an angle.
rad_to_deg(radians) == radians

\* convert_trig_to_compass_angle(angle) in its default radians mode, on a
\* direction: the compass angle pi/2 - a (mod 2 pi) has sine and cosine swapped.
convert_trig_to_compass_angle_rad(trig_angle) ==
    IF trig_angle = NaN THEN NaN
    ELSE [sin |-> trig_angle.cos, cos |-> trig_angle.sin]

\* Haversine distance of two points of the meridian.
calculate_great_circle_distance(origin_lat, origin_lon, dest_lat, dest_lon) ==
    IF IsFin(origin_lat) /\ IsFin(origin_lon) /\ IsFin(dest_lat) /\ IsFin(dest_lon)
    THEN AbsNum(Sub(dest_lat, origin_lat))
    ELSE NaN

\* Initial bearing between two points of the meridian: theta = atan2(0, x)
\* where x has the sign of the latitude difference, then (deg + 360) % 360.
calculate_initial_bearing(origin_lat, origin_lon, dest_lat, dest_lon) ==
    IF IsFin(origin_lat) /\ IsFin(origin_lon) /\ IsFin(dest_lat) /\ IsFin(dest_lon)
    THEN (IF Lt(dest_lat, origin_lat) THEN Num(180) ELSE Num(0))
    ELSE NaN

\* Destination point from an origin of the meridian along bearing 0 or 180.
determine_destination_coords(origin_lat, origin_lon, distance_km, initial_bearing_deg) ==
    IF IsFin(origin_lat) /\ IsFin(origin_lon) /\ IsFin(distance_km)
       /\ IsFin(initial_bearing_deg)
    THEN Point(IF initial_bearing_deg = Num(180)
               THEN Sub(origin_lat, distance_km)
               ELSE Add(origin_lat, distance_km),
               origin_lon)
    ELSE Point(NaN, NaN)

(***************************************************************************)
(* Constants (src/src/utils.py)                                            *)
(***************************************************************************)
GRAVITY_ACCEL_KM_PER_S2 == Num(-2)

Half == Rat(1, 2)

(***************************************************************************)
(* Missile (src/src/missiles_abstract.py)                                  *)
(***************************************************************************)
\* Variant of set_launchpoint that drops the static data computed for the
\* previous launchpoint.
set_launchpoint_DropsBuildData(self, LP_latlon_deg) ==
    [self EXCEPT !.LP_latlon_deg = LP_latlon_deg, !.build_data = None]

set_launchpoint(self, LP_latlon_deg) == [self EXCEPT !.LP_latlon_deg = LP_latlon_deg]

set_aimpoint(self, AP_latlon_deg) == [self EXCEPT !.AP_latlon_deg = AP_latlon_deg]

\* self.AP_latlon_deg[0] raises TypeError when the aimpoint is None.
compute_distance_to_target(self, position_latlon_deg) ==
    IF self.AP_latlon_deg = None THEN Raise("TypeError")
    ELSE Ok(calculate_great_circle_distance(
                position_latlon_deg.lat, position_latlon_deg.lon,
                self.AP_latlon_deg.lat, self.AP_latlon_deg.lon))

compute_bearing(self, position_latlon_deg) ==
    IF self.AP_latlon_deg = None THEN Raise("TypeError")
    ELSE Ok(calculate_initial_bearing(
                position_latlon_deg.lat, position_latlon_deg.lon,
                self.AP_latlon_deg.lat, self.AP_latlon_deg.lon))

compute_velocity(horizontal_velocity_km_sec, vertical_velocity_km_sec) ==
    Sqrt(Add(Square(horizontal_velocity_km_sec), Square(vertical_velocity_km_sec)))

compute_altitude_angle(horizontal_velocity_km_sec, vertical_velocity_km_sec) ==
    rad_to_deg(Arctan(Div(vertical_velocity_km_sec, horizontal_velocity_km_sec)))

(***************************************************************************)
(* Sampling helpers shared by both launch() methods                        *)
(***************************************************************************)
\* np.arange(0, stop, step): 0, step, 2*step, ... below stop; a stop or step
\* that is not finite, or a zero step, raises.
Arange(stop, step) ==
    IF ~IsFin(stop) \/ ~IsFin(step) THEN Raise("ValueError")
    ELSE IF step.n = 0 THEN Raise("ZeroDivisionError")
    ELSE LET len == CeilInt(Div(stop, step))
         IN  Ok([j \in 1..(IF len > 0 THEN len ELSE 0) |-> Mul(Num(j - 1), step)])

\* An OrderedDict: its items, as [key, val] records in insertion order.
OrderedDict(items) == [items |-> items]

Items(d) == d.items

Size(d) == Len(d.items)

HasKey(d, key) == \E j \in 1..Size(d) : d.items[j].key = key

\* d[key] = val on an OrderedDict: an existing key keeps its place.
DictSet(d, key, val) ==
    IF HasKey(d, key)
    THEN OrderedDict([j \in 1..Size(d) |->
            IF d.items[j].key = key THEN [key |-> key, val |-> val] ELSE d.items[j]])
    ELSE OrderedDict(Append(d.items, [key |-> key, val |-> val]))

\* The position dict of get_current_position(): the altitude is floored at 0.
PositionDict(current_latlon_deg, current_altitude_km) ==
    Ok([lat_deg |-> current_latlon_deg.lat,
        lon_deg |-> current_latlon_deg.lon,
        alt_km |-> PyMax(current_altitude_km, Zero)])

\* Variant of the orientation dict whose roll follows the tilt angle.
OrientationDict_RollFollowsTilt(current_bearing_deg, current_tilt_deg) ==
    IF current_bearing_deg.err # "none" THEN Raise("TypeError")
    ELSE Ok([bearing_deg |-> current_bearing_deg.val,
             tilt_deg |-> current_tilt_deg,
             roll_deg |-> current_tilt_deg])

\* The orientation dict from the outcome of compute_bearing at the current
\* position and the tilt angle.
OrientationDict(current_bearing_deg, current_tilt_deg) ==
    IF current_bearing_deg.err # "none" THEN Raise("TypeError")
    ELSE Ok([bearing_deg |-> current_bearing_deg.val,
             tilt_deg |-> current_tilt_deg,
             roll_deg |-> Zero])

\* get_current_orientation() of either class, from the outcomes of its calls
\* of get_current_position and compute_current_vertical_velocity.
OrientationAt(self, position_dict, vertical_velocity_km_sec) ==
    IF position_dict.err # "none" THEN Raise("TypeError")
    ELSE OrientationDict(
            compute_bearing(self, Point(position_dict.val.lat_deg, position_dict.val.lon_deg)),
            rad_to_deg(convert_trig_to_compass_angle_rad(Arctan2(
                vertical_velocity_km_sec.val,
                self.build_data.horizontal_velocity_km_sec))))

\* {**position_dict, **orientation_dict}, or the exception either call raised
MergeSample(position_dict, orientation_dict) ==
    IF position_dict.err # "none" THEN Raise(position_dict.err)
    ELSE IF orientation_dict.err # "none" THEN Raise(orientation_dict.err)
    ELSE Ok([lat_deg |-> position_dict.val.lat_deg,
             lon_deg |-> position_dict.val.lon_deg,
             alt_km |-> position_dict.val.alt_km,
             bearing_deg |-> orientation_dict.val.bearing_deg,
             tilt_deg |-> orientation_dict.val.tilt_deg,
             roll_deg |-> orientation_dict.val.roll_deg])

\* Variant of the body of launch() that assigns self.trajectory_data before
\* the samples are taken, so that an exception leaves an empty trajectory.
StoreTrajectory_AssignsFirst(self, samples, final_key, final) ==
    IF \E j \in 1..Len(samples) : samples[j].val.err # "none"
    THEN [err |-> "TypeError",
          val |-> [self EXCEPT !.trajectory_data = OrderedDict(<<>>)]]
    ELSE IF final.err # "none"
    THEN [err |-> final.err,
          val |-> [self EXCEPT !.trajectory_data = OrderedDict(<<>>)]]
    ELSE [err |-> "none",
          val |-> [self EXCEPT !.trajectory_data =
                      DictSet(OrderedDict([j \in 1..Len(samples) |->
                                  [key |-> samples[j].key, val |-> samples[j].val.val]]),
                              final_key, final.val)]]

\* The body of launch() once the samples are taken: samples holds, in loop
\* order, the grid keys with the outcome of sampling at each, final the
\* outcome of sampling at the stop time.  An exception raised by a sample
\* leaves self as it was; otherwise the grid samples fill traj_dict, the
\* final sample is stored under final_key, and self.trajectory_data is
\* assigned last.
StoreTrajectory(self, samples, final_key, final) ==
    IF \E j \in 1..Len(samples) : samples[j].val.err # "none"
    THEN [err |-> "TypeError", val |-> self]
    ELSE IF final.err # "none" THEN [err |-> final.err, val |-> self]
    ELSE [err |-> "none",
          val |-> [self EXCEPT !.trajectory_data =
                      DictSet(OrderedDict([j \in 1..Len(samples) |->
                                  [key |-> samples[j].key, val |-> samples[j].val.val]]),
                              final_key, final.val)]]


(***************************************************************************)
(* BallisticMissile (src/src/missiles_ballistic.py)                        *)
(***************************************************************************)
\* time-to-apogee times |g|
Ballistic_compute_initial_vertical_velocity(time_to_target_sec) ==
    Mul(Mul(time_to_target_sec, Half), AbsNum(GRAVITY_ACCEL_KM_PER_S2))

\* self.build_data[...] raises TypeError while build_data is None.
Ballistic_compute_current_vertical_velocity(self, elapsed_time_sec) ==
    IF self.build_data = None THEN Raise("TypeError")
    ELSE Ok(Add(self.build_data.initial_vertical_velocity_km_sec,
                Mul(GRAVITY_ACCEL_KM_PER_S2, elapsed_time_sec)))

Ballistic_build(self) ==
    IF self.params.horizontal_velocity_km_sec = Absent THEN [err |-> "KeyError", val |-> self]
    ELSE IF compute_distance_to_target(self, self.LP_latlon_deg).err # "none"
    THEN [err |-> "TypeError", val |-> self]
    ELSE
    LET horizontal_velocity_km_sec == self.params.horizontal_velocity_km_sec
        dist_to_target_km == compute_distance_to_target(self, self.LP_latlon_deg).val
        time_to_target_sec == Div(dist_to_target_km, horizontal_velocity_km_sec)
        initial_vertical_velocity_km_sec ==
            Ballistic_compute_initial_vertical_velocity(time_to_target_sec)
        initial_launch_velocity_km_sec ==
            compute_velocity(horizontal_velocity_km_sec, initial_vertical_velocity_km_sec)
        initial_launch_angle_deg ==
            compute_altitude_angle(horizontal_velocity_km_sec, initial_vertical_velocity_km_sec)
    IN  [err |-> "none",
         val |-> [self EXCEPT !.build_data = [
            launchpoint_dist_to_target_km |-> dist_to_target_km,
            launchpoint_bearing_deg |-> compute_bearing(self, self.LP_latlon_deg).val,
            total_time_to_target_sec |-> time_to_target_sec,
            horizontal_velocity_km_sec |-> horizontal_velocity_km_sec,
            initial_vertical_velocity_km_sec |-> initial_vertical_velocity_km_sec,
            initial_launch_velocity_km_sec |-> initial_launch_velocity_km_sec,
            initial_launch_angle_deg |-> initial_launch_angle_deg]]]

Ballistic_get_current_position(self, elapsed_time_sec) ==
    IF self.build_data = None THEN Raise("TypeError")
    ELSE
    LET dist_km == Mul(self.build_data.horizontal_velocity_km_sec, elapsed_time_sec)
        current_latlon_deg == determine_destination_coords(
            self.LP_latlon_deg.lat, self.LP_latlon_deg.lon,
            dist_km, self.build_data.launchpoint_bearing_deg)
        current_altitude_km ==
            Add(Mul(self.build_data.initial_vertical_velocity_km_sec, elapsed_time_sec),
                Mul(Mul(Half, GRAVITY_ACCEL_KM_PER_S2), Square(elapsed_time_sec)))
    IN  PositionDict(current_latlon_deg, current_altitude_km)

Ballistic_get_current_orientation(self, elapsed_time_sec) ==
    OrientationAt(self,
        Ballistic_get_current_position(self, elapsed_time_sec),
        Ballistic_compute_current_vertical_velocity(self, elapsed_time_sec))

\* {**position_dict, **orientation_dict}
Ballistic_sample(self, elapsed_time_sec) ==
    MergeSample(Ballistic_get_current_position(self, elapsed_time_sec),
                Ballistic_get_current_orientation(self, elapsed_time_sec))

\* The loop over np.arange(0, stoptime_sec, timestep_sec) and the final
\* sample, for the grid that np.arange returned or the exception it raised.
Ballistic_launch_over(self, stoptime_sec, grid) ==
    IF grid.err # "none" THEN [err |-> grid.err, val |-> self]
    ELSE StoreTrajectory(self,
            [j \in 1..Len(grid.val) |->
                [key |-> grid.val[j], val |-> Ballistic_sample(self, grid.val[j])]],
            Round3(stoptime_sec),
            Ballistic_sample(self, stoptime_sec))

\* launch() without the final sample at the stop time: the grid samples only.
Ballistic_launch_GridOnly(self, stoptime_arg) ==
    IF stoptime_arg = None /\ self.build_data = None THEN [err |-> "TypeError", val |-> self]
    ELSE
    LET stoptime_sec == IF stoptime_arg = None
                        THEN self.build_data.total_time_to_target_sec
                        ELSE stoptime_arg
        grid == Arange(stoptime_sec, self.params.timestep_sec)
    IN  IF grid.err # "none" THEN [err |-> grid.err, val |-> self]
        ELSE IF \E j \in 1..Len(grid.val) : Ballistic_sample(self, grid.val[j]).err # "none"
        THEN [err |-> "TypeError", val |-> self]
        ELSE [err |-> "none",
              val |-> [self EXCEPT !.trajectory_data =
                          OrderedDict([j \in 1..Len(grid.val) |->
                              [key |-> grid.val[j],
                               val |-> Ballistic_sample(self, grid.val[j]).val]])]]

\* launch(stoptime_sec): stoptime_sec is None or a number; None reads the
\* default from build_data (TypeError while build_data is None).
Ballistic_launch(self, stoptime_arg) ==
    IF stoptime_arg = None /\ self.build_data = None THEN [err |-> "TypeError", val |-> self]
    ELSE IF stoptime_arg = None
    THEN Ballistic_launch_over(self, self.build_data.total_time_to_target_sec,
            Arange(self.build_data.total_time_to_target_sec, self.params.timestep_sec))
    ELSE Ballistic_launch_over(self, stoptime_arg,
            Arange(stoptime_arg, self.params.timestep_sec))

(***************************************************************************)
(* TerminalInterceptor (src/src/missiles_interceptor.py)                   *)
(* targeted_missile is None or a reference to the ballistic missile; the   *)
(* operators below receive the referenced object as `targeted`.            *)
(***************************************************************************)
\* The reference to the ballistic missile held in the variable target.
TargetRef == [ref |-> "target"]

set_intercept_target(self, targeted_missile) ==
    [self EXCEPT !.targeted_missile = targeted_missile]

\* Variant of get_intercept_time_and_position that resets the intercept
\* time and marks the launchpoint as aimpoint before it checks the target.
get_intercept_time_and_position_ResetsFirst(self, targeted) ==
    IF self.targeted_missile = None
    THEN [err |-> "ValueError",
          val |-> [self EXCEPT !.intercept_time_sec = Zero,
                               !.AP_latlon_deg = self.LP_latlon_deg]]
    ELSE IF targeted.build_data = None
    THEN [err |-> "TypeError",
          val |-> [self EXCEPT !.intercept_time_sec = Zero,
                               !.AP_latlon_deg = self.LP_latlon_deg]]
    ELSE IF self.params.intercept_distance_from_target_km = Absent
    THEN [err |-> "KeyError", val |-> self]
    ELSE
    LET intercept_dist_from_missile_LP_km ==
            Sub(targeted.build_data.launchpoint_dist_to_target_km,
                self.params.intercept_distance_from_target_km)
        intercept_time_sec ==
            Div(intercept_dist_from_missile_LP_km,
                targeted.build_data.horizontal_velocity_km_sec)
    IN  [err |-> "none",
         val |-> [self EXCEPT
                    !.intercept_time_sec = intercept_time_sec,
                    !.intercept_position =
                        Ballistic_get_current_position(targeted, intercept_time_sec).val]]

\* Returns self with intercept_time_sec and intercept_position assigned.
get_intercept_time_and_position(self, targeted) ==
    IF self.targeted_missile = None THEN [err |-> "ValueError", val |-> self]
    ELSE IF targeted.build_data = None THEN [err |-> "TypeError", val |-> self]
    ELSE IF self.params.intercept_distance_from_target_km = Absent
    THEN [err |-> "KeyError", val |-> self]
    ELSE
    LET intercept_dist_from_missile_LP_km ==
            Sub(targeted.build_data.launchpoint_dist_to_target_km,
                self.params.intercept_distance_from_target_km)
        intercept_time_sec ==
            Div(intercept_dist_from_missile_LP_km,
                targeted.build_data.horizontal_velocity_km_sec)
    IN  [err |-> "none",
         val |-> [self EXCEPT
                    !.intercept_time_sec = intercept_time_sec,
                    !.intercept_position =
                        Ballistic_get_current_position(targeted, intercept_time_sec).val]]

\* Variant of compute_initial_vertical_velocity that adds the gravity drop
\* to the intercept altitude with the wrong sign.
Interceptor_compute_initial_vertical_velocity_WrongSign(self, time_to_intercept_sec) ==
    LET gravity_drop == Mul(Mul(Half, GRAVITY_ACCEL_KM_PER_S2), Square(time_to_intercept_sec))
    IN  Div(Add(self.intercept_position.alt_km, gravity_drop), time_to_intercept_sec)

Interceptor_compute_initial_vertical_velocity(self, time_to_intercept_sec) ==
    LET gravity_drop == Mul(Mul(Half, GRAVITY_ACCEL_KM_PER_S2), Square(time_to_intercept_sec))
    IN  Div(Sub(self.intercept_position.alt_km, gravity_drop), time_to_intercept_sec)

Interceptor_compute_current_vertical_velocity(self, elapsed_time_sec) ==
    IF self.build_data = None THEN Raise("TypeError")
    ELSE Ok(Add(self.build_data.initial_vertical_velocity_km_sec,
                Mul(GRAVITY_ACCEL_KM_PER_S2, elapsed_time_sec)))

\* Variant of get_interceptor_launch_time that adds the interceptor's own
\* time to intercept instead of subtracting it.
get_interceptor_launch_time_Added(self, targeted) ==
    IF targeted.params.launch_time = Absent THEN Raise("KeyError")
    ELSE IF timedelta(self.intercept_time_sec).err # "none"
    THEN Raise(timedelta(self.intercept_time_sec).err)
    ELSE IF timedelta(self.build_data.interceptor_time_to_intercept_sec).err # "none"
    THEN Raise(timedelta(self.build_data.interceptor_time_to_intercept_sec).err)
    ELSE Ok(Add(Add(targeted.params.launch_time, timedelta(self.intercept_time_sec).val),
                timedelta(self.build_data.interceptor_time_to_intercept_sec).val))

\* targeted launch time + intercept time - own time to intercept
get_interceptor_launch_time(self, targeted) ==
    IF targeted.params.launch_time = Absent THEN Raise("KeyError")
    ELSE IF timedelta(self.intercept_time_sec).err # "none"
    THEN Raise(timedelta(self.intercept_time_sec).err)
    ELSE IF timedelta(self.build_data.interceptor_time_to_intercept_sec).err # "none"
    THEN Raise(timedelta(self.build_data.interceptor_time_to_intercept_sec).err)
    ELSE Ok(Sub(Add(targeted.params.launch_time, timedelta(self.intercept_time_sec).val),
                timedelta(self.build_data.interceptor_time_to_intercept_sec).val))

\* build() up to and including the assignment of self.build_data
Interceptor_build_data(self) ==
    LET horizontal_velocity_km_sec == self.params.horizontal_velocity_km_sec
        ground_dist_to_intercept_km == compute_distance_to_target(self, self.LP_latlon_deg).val
        dist_to_intercept_km ==
            Sqrt(Add(Square(ground_dist_to_intercept_km), Square(self.intercept_position.alt_km)))
        interceptor_time_to_intercept_sec ==
            Div(ground_dist_to_intercept_km, horizontal_velocity_km_sec)
        initial_vertical_velocity_km_sec ==
            Interceptor_compute_initial_vertical_velocity(self, interceptor_time_to_intercept_sec)
        initial_launch_velocity_km_sec ==
            compute_velocity(horizontal_velocity_km_sec, initial_vertical_velocity_km_sec)
        initial_launch_angle_deg ==
            compute_altitude_angle(horizontal_velocity_km_sec, initial_vertical_velocity_km_sec)
    IN  [launchpoint_ground_dist_to_intercept_km |-> ground_dist_to_intercept_km,
         launchpoint_dist_to_intercept_km |-> dist_to_intercept_km,
         launchpoint_bearing_deg |-> compute_bearing(self, self.LP_latlon_deg).val,
         interceptor_time_to_intercept_sec |-> interceptor_time_to_intercept_sec,
         horizontal_velocity_km_sec |-> horizontal_velocity_km_sec,
         initial_vertical_velocity_km_sec |-> initial_vertical_velocity_km_sec,
         initial_launch_velocity_km_sec |-> initial_launch_velocity_km_sec,
         initial_launch_angle_deg |-> initial_launch_angle_deg]

\* build(): every assignment made before an exception is raised stays.
Interceptor_build(self, targeted) ==
    LET located == get_intercept_time_and_position(self, targeted)
        aimed == [located.val EXCEPT !.AP_latlon_deg =
                     Point(located.val.intercept_position.lat_deg,
                           located.val.intercept_position.lon_deg)]
        built == [aimed EXCEPT !.build_data = Interceptor_build_data(aimed)]
        launch_time == get_interceptor_launch_time(built, targeted)
    IN  IF located.err # "none" THEN located
        ELSE IF aimed.params.horizontal_velocity_km_sec = Absent
        THEN [err |-> "KeyError", val |-> aimed]
        ELSE IF launch_time.err # "none" THEN [err |-> launch_time.err, val |-> built]
        ELSE [err |-> "none", val |-> [built EXCEPT !.params.launch_time = launch_time.val]]

Interceptor_get_current_position(self, elapsed_time_sec) ==
    IF self.build_data = None THEN Raise("TypeError")
    ELSE
    LET dist_km == Mul(self.build_data.horizontal_velocity_km_sec, elapsed_time_sec)
        current_latlon_deg == determine_destination_coords(
            self.LP_latlon_deg.lat, self.LP_latlon_deg.lon,
            dist_km, self.build_data.launchpoint_bearing_deg)
        current_altitude_km ==
            Add(Mul(self.build_data.initial_vertical_velocity_km_sec, elapsed_time_sec),
                Mul(Mul(Half, GRAVITY_ACCEL_KM_PER_S2), Square(elapsed_time_sec)))
    IN  PositionDict(current_latlon_deg, current_altitude_km)

Interceptor_get_current_orientation(self, elapsed_time_sec) ==
    OrientationAt(self,
        Interceptor_get_current_position(self, elapsed_time_sec),
        Interceptor_compute_current_vertical_velocity(self, elapsed_time_sec))

\* {**position_dict, **orientation_dict}
Interceptor_sample(self, elapsed_time_sec) ==
    MergeSample(Interceptor_get_current_position(self, elapsed_time_sec),
                Interceptor_get_current_orientation(self, elapsed_time_sec))

Interceptor_launch_over(self, stoptime_sec, grid) ==
    IF grid.err # "none" THEN [err |-> grid.err, val |-> self]
    ELSE StoreTrajectory(self,
            [j \in 1..Len(grid.val) |->
                [key |-> grid.val[j], val |-> Interceptor_sample(self, grid.val[j])]],
            Round3(stoptime_sec),
            Interceptor_sample(self, stoptime_sec))

Interceptor_launch(self, stoptime_arg) ==
    IF stoptime_arg = None /\ self.build_data = None THEN [err |-> "TypeError", val |-> self]
    ELSE IF stoptime_arg = None
    THEN Interceptor_launch_over(self, self.build_data.interceptor_time_to_intercept_sec,
            Arange(self.build_data.interceptor_time_to_intercept_sec,
                   self.params.timestep_sec))
    ELSE Interceptor_launch_over(self, stoptime_arg,
            Arange(stoptime_arg, self.params.timestep_sec))

(***************************************************************************)
(* Bounds of the model                                                     *)
(***************************************************************************)
\* Launchpoints and aimpoints are set to the latitudes 0 and LatStep, so
\* LatStep is the ground distance between the two points.
LatStep == 4

\* launch() is called with stoptime_sec None, 0 or MaxStop.
MaxStop == 1

\* Positions and orientations are queried at the times -1, 0 and MaxQueryTime.
MaxQueryTime == 1

Points == {LatLon(0), LatLon(LatStep)}

StopTimes == {None, Num(0), Num(MaxStop)}

QueryTimes == {Num(-1), Num(0), Num(MaxQueryTime)}

\* params['horizontal_velocity_km_sec'] of a ballistic missile
MissileVelocities == {Num(-1), Num(0), Num(3)}

\* params['timestep_sec']: a whole number of time units, or not
Timesteps == {Num(1), Rat(5, 4)}

\* params of the targeted missile: horizontal velocity, and launch_time or no
\* such key
TargetParams ==
    {[horizontal_velocity_km_sec |-> hv, timestep_sec |-> Num(1), launch_time |-> lt] :
        hv \in {Num(0), Num(3)}, lt \in {Absent, Num(0)}}

\* params of the interceptor: horizontal velocity (or no such key) and
\* intercept_distance_from_target_km
InterceptorParams ==
    {[horizontal_velocity_km_sec |-> c[1], timestep_sec |-> Num(1),
      launch_time |-> Absent, intercept_distance_from_target_km |-> c[2]] :
        c \in {<<Num(1), Num(1)>>, <<Absent, Num(1)>>, <<Num(0), Num(1)>>,
               <<Num(1), Num(0)>>, <<Num(1), Num(LatStep + 1)>>}}

(***************************************************************************)
(* State.  The driver constructs either one ballistic missile, which it    *)
(* then exercises freely (missile), or one interceptor, which it exercises *)
(* freely, and the ballistic missile it is aimed at (target), which it     *)
(* builds and launches.  An object that was not constructed is None.       *)
(* call is the last call made and its outcome.                             *)
(* main is the frame of main() while it runs, None otherwise.              *)
(***************************************************************************)
\* Missile.__init__ via BallisticMissile.__init__
NewBallisticMissile(params, LP_latlon_deg, AP_latlon_deg) ==
    [params |-> params,
     LP_latlon_deg |-> LP_latlon_deg,
     AP_latlon_deg |-> AP_latlon_deg,
     build_data |-> None,
     trajectory_data |-> None]

\* Missile.__init__ via TerminalInterceptor.__init__: the interceptor's params
\* hold no aimpoint, so AP_latlon_deg starts as None.
NewTerminalInterceptor(params, LP_latlon_deg) ==
    [params |-> params,
     LP_latlon_deg |-> LP_latlon_deg,
     AP_latlon_deg |-> None,
     build_data |-> None,
     trajectory_data |-> None,
     targeted_missile |-> None,
     intercept_position |-> None,
     intercept_time_sec |-> None]

Called(op, who, arg, err, ret) ==
    [op |-> op, who |-> who, arg |-> arg, err |-> err, ret |-> ret]

InitBallistic ==
    /\ \E hv \in MissileVelocities, ts \in Timesteps :
          missile = NewBallisticMissile(
              [horizontal_velocity_km_sec |-> hv, timestep_sec |-> ts,
               launch_time |-> Num(0)],
              LatLon(0), LatLon(LatStep))
    /\ target = None
    /\ interceptor = None
    /\ call = Called("__init__", "missile", None, "none", None)
    /\ main = None

InitIntercept ==
    /\ missile = None
    /\ \E params \in TargetParams :
          target = NewBallisticMissile(params, LatLon(0), LatLon(LatStep))
    /\ \E params \in InterceptorParams :
          interceptor = NewTerminalInterceptor(params, LatLon(0))
    /\ call = Called("__init__", "interceptor", None, "none", None)
    /\ main = None

Init == InitBallistic \/ InitIntercept

(***************************************************************************)
(* Calls on the ballistic missile                                          *)
(***************************************************************************)
MissileBuild ==
    /\ missile # None
    /\ \E r \in {Ballistic_build(missile)} :
          /\ missile' = r.val
          /\ call' = Called("build", "missile", None, r.err, None)
    /\ UNCHANGED <<target, interceptor, main>>

MissileLaunch(stoptime_sec) ==
    /\ missile # None
    /\ \E r \in {Ballistic_launch(missile, stoptime_sec)} :
          /\ missile' = r.val
          /\ call' = Called("launch", "missile", stoptime_sec, r.err, None)
    /\ UNCHANGED <<target, interceptor, main>>

MissileSetLaunchpoint(p) ==
    /\ missile # None
    /\ missile' = set_launchpoint(missile, p)
    /\ call' = Called("set_launchpoint", "missile", p, "none", None)
    /\ UNCHANGED <<target, interceptor, main>>

MissileSetAimpoint(p) ==
    /\ missile # None
    /\ missile' = set_aimpoint(missile, p)
    /\ call' = Called("set_aimpoint", "missile", p, "none", None)
    /\ UNCHANGED <<target, interceptor, main>>

MissileGetCurrentPosition(t) ==
    /\ missile # None
    /\ \E r \in {Ballistic_get_current_position(missile, t)} :
          call' = Called("get_current_position", "missile", t, r.err, r.val)
    /\ UNCHANGED <<missile, target, interceptor, main>>

MissileGetCurrentOrientation(t) ==
    /\ missile # None
    /\ \E r \in {Ballistic_get_current_orientation(missile, t)} :
          call' = Called("get_current_orientation", "missile", t, r.err, r.val)
    /\ UNCHANGED <<missile, target, interceptor, main>>

(***************************************************************************)
(* Calls on the targeted missile                                           *)
(***************************************************************************)
TargetBuild ==
    /\ target # None
    /\ \E r \in {Ballistic_build(target)} :
          /\ target' = r.val
          /\ call' = Called("build", "target", None, r.err, None)
    /\ UNCHANGED <<missile, interceptor, main>>

TargetLaunch ==
    /\ target # None
    /\ \E r \in {Ballistic_launch(target, None)} :
          /\ target' = r.val
          /\ call' = Called("launch", "target", None, r.err, None)
    /\ UNCHANGED <<missile, interceptor, main>>

(***************************************************************************)
(* Calls on the interceptor                                                *)
(***************************************************************************)
InterceptorSetInterceptTarget ==
    /\ interceptor # None
    /\ interceptor' = set_intercept_target(interceptor, TargetRef)
    /\ call' = Called("set_intercept_target", "interceptor", TargetRef, "none", None)
    /\ UNCHANGED <<missile, target, main>>

\* Variant of the interceptor's build() that sets the aimpoint it computed
\* on the targeted missile as well.
InterceptorBuild_AimsTarget ==
    /\ interceptor # None
    /\ \E r \in {Interceptor_build(interceptor, target)} :
          /\ interceptor' = r.val
          /\ target' = IF target = None \/ r.val.AP_latlon_deg = None THEN target
                       ELSE set_aimpoint(target, r.val.AP_latlon_deg)
          /\ call' = Called("build", "interceptor", None, r.err, None)
    /\ UNCHANGED <<missile, main>>

InterceptorBuild ==
    /\ interceptor # None
    /\ \E r \in {Interceptor_build(interceptor, target)} :
          /\ interceptor' = r.val
          /\ call' = Called("build", "interceptor", None, r.err, None)
    /\ UNCHANGED <<missile, target, main>>

InterceptorLaunch(stoptime_sec) ==
    /\ interceptor # None
    /\ \E r \in {Interceptor_launch(interceptor, stoptime_sec)} :
          /\ interceptor' = r.val
          /\ call' = Called("launch", "interceptor", stoptime_sec, r.err, None)
    /\ UNCHANGED <<missile, target, main>>

InterceptorSetLaunchpoint(p) ==
    /\ interceptor # None
    /\ interceptor' = set_launchpoint(interceptor, p)
    /\ call' = Called("set_launchpoint", "interceptor", p, "none", None)
    /\ UNCHANGED <<missile, target, main>>

InterceptorSetAimpoint(p) ==
    /\ interceptor # None
    /\ interceptor' = set_aimpoint(interceptor, p)
    /\ call' = Called("set_aimpoint", "interceptor", p, "none", None)
    /\ UNCHANGED <<missile, target, main>>

InterceptorGetCurrentPosition(t) ==
    /\ interceptor # None
    /\ \E r \in {Interceptor_get_current_position(interceptor, t)} :
          call' = Called("get_current_position", "interceptor", t, r.err, r.val)
    /\ UNCHANGED <<missile, target, interceptor, main>>

InterceptorGetCurrentOrientation(t) ==
    /\ interceptor # None
    /\ \E r \in {Interceptor_get_current_orientation(interceptor, t)} :
          call' = Called("get_current_orientation", "interceptor", t, r.err, r.val)
    /\ UNCHANGED <<missile, target, interceptor, main>>

Next ==
    \/ MissileBuild
    \/ \E s \in StopTimes : MissileLaunch(s)
    \/ \E p \in Points : MissileSetLaunchpoint(p)
    \/ \E p \in Points : MissileSetAimpoint(p)
    \/ \E t \in QueryTimes : MissileGetCurrentPosition(t)
    \/ \E t \in QueryTimes : MissileGetCurrentOrientation(t)
    \/ TargetBuild
    \/ TargetLaunch
    \/ InterceptorSetInterceptTarget
    \/ InterceptorBuild
    \/ \E s \in StopTimes : InterceptorLaunch(s)
    \/ \E p \in Points : InterceptorSetLaunchpoint(p)
    \/ \E p \in Points : InterceptorSetAimpoint(p)
    \/ \E t \in QueryTimes : InterceptorGetCurrentPosition(t)
    \/ \E t \in QueryTimes : InterceptorGetCurrentOrientation(t)

Spec == Init /\ [][Next]_vars
(***************************************************************************)
(* Vocabulary of the properties                                            *)
(***************************************************************************)
Obj(who) == CASE who = "missile" -> missile
              [] who = "target" -> target
              [] who = "interceptor" -> interceptor

Instances == {"missile", "target", "interceptor"}

Constructed(who) == Obj(who) # None

Built(who) == Constructed(who) /\ Obj(who).build_data # None

Unbuilt(who) == Constructed(who) /\ Obj(who).build_data = None

Launched(who) == Constructed(who) /\ Obj(who).trajectory_data # None

\* The last call was op on the instance who.
LastCall(op, who) == call.op = op /\ call.who = who

Returned == call.err = "none"

Raised == call.err # "none"

\* The stop time the last launch() on who worked with: its argument, or the
\* default it read from build_data.
StopOfLastLaunch(who) ==
    IF call.arg # None THEN call.arg
    ELSE IF who = "interceptor"
         THEN Obj(who).build_data.interceptor_time_to_intercept_sec
         ELSE Obj(who).build_data.total_time_to_target_sec

\* The sample launch() stores for the time t on the instance who.
SampleOf(who, t) ==
    IF who = "interceptor" THEN Interceptor_sample(interceptor, t).val
    ELSE Ballistic_sample(Obj(who), t).val

FirstKey(d) == d.items[1].key

LastKey(d) == d.items[Size(d)].key

(***************************************************************************)
(* C1.  On an instance of either class whose build_data is None, launch()  *)
(* (with or without a stop time), get_current_position(t) and              *)
(* get_current_orientation(t) raise, return no sample, and leave           *)
(* build_data and trajectory_data None.                                    *)
(***************************************************************************)
C1_UnbuiltCallsAreRejected ==
    \A who \in Instances :
        /\ (Unbuilt(who) /\ call.who = who
            /\ call.op \in {"launch", "get_current_position", "get_current_orientation"})
           => (Raised /\ call.ret = None /\ Obj(who).trajectory_data = None)
        /\ Unbuilt(who) =>
              /\ Obj(who).trajectory_data = None
              /\ \A t \in QueryTimes :
                    IF who = "interceptor"
                    THEN /\ Interceptor_get_current_position(interceptor, t).err # "none"
                         /\ Interceptor_get_current_orientation(interceptor, t).err # "none"
                    ELSE /\ Ballistic_get_current_position(Obj(who), t).err # "none"
                         /\ Ballistic_get_current_orientation(Obj(who), t).err # "none"

\* An unbuilt interceptor was launched with an explicit stop time and raised.
C1_Witness ==
    /\ Unbuilt("interceptor")
    /\ LastCall("launch", "interceptor")
    /\ call.arg = Num(MaxStop)
    /\ call.err = "TypeError"

(***************************************************************************)
(* C2.  After a launch() that returned, with a timestep above 0 (and a     *)
(* stop time that is not negative), the first key of trajectory_data is 0  *)
(* and the last key equals the stop time exactly.                          *)
(***************************************************************************)
C2_LastKeyIsStopTime ==
    \A who \in Instances :
        (LastCall("launch", who) /\ Returned
         /\ Gt(Obj(who).params.timestep_sec, Zero)
         /\ Ge(StopOfLastLaunch(who), Zero))
        => /\ FirstKey(Obj(who).trajectory_data) = Zero
           /\ LastKey(Obj(who).trajectory_data) = StopOfLastLaunch(who)

(***************************************************************************)
(* C3.  launch(S) with timestep d > 0 and S >= 0 stores one sample at      *)
(* every k*d below S and one more, final sample computed at t = S: no grid *)
(* sample is overwritten or dropped by the final one.                      *)
(***************************************************************************)
C3_GridPlusFinalSample ==
    \A who \in Instances :
        (LastCall("launch", who) /\ Returned
         /\ Gt(Obj(who).params.timestep_sec, Zero)
         /\ Ge(StopOfLastLaunch(who), Zero))
        => LET d == Obj(who).params.timestep_sec
               S == StopOfLastLaunch(who)
               traj == Items(Obj(who).trajectory_data)
               n == CeilInt(Div(S, d))
           IN  /\ Len(traj) = n + 1
               /\ \A j \in 1..n :
                     /\ traj[j].key = Mul(Num(j - 1), d)
                     /\ traj[j].val = SampleOf(who, Mul(Num(j - 1), d))
               /\ traj[Len(traj)].val = SampleOf(who, S)

(***************************************************************************)
(* C4.  The keys of every trajectory_data are strictly increasing in       *)
(* insertion order, the final key round(stop time, 3) included.            *)
(***************************************************************************)
C4_KeysStrictlyIncreasing ==
    \A who \in Instances :
        Launched(who) =>
            LET traj == Items(Obj(who).trajectory_data)
            IN  \A j \in 1..(Len(traj) - 1) : Lt(traj[j].key, traj[j + 1].key)

(***************************************************************************)
(* C5.  On a built instance get_current_position(t) reports alt_km >= 0    *)
(* for every elapsed time t, and so does every sample of trajectory_data.  *)
(***************************************************************************)
C5_AltitudeNeverNegative ==
    \A who \in Instances :
        /\ Built(who) =>
              \A t \in QueryTimes :
                  LET position_dict == IF who = "interceptor"
                                       THEN Interceptor_get_current_position(interceptor, t)
                                       ELSE Ballistic_get_current_position(Obj(who), t)
                  IN  position_dict.err = "none" /\ Ge(position_dict.val.alt_km, Zero)
        /\ Launched(who) =>
              LET traj == Items(Obj(who).trajectory_data)
              IN  \A j \in 1..Len(traj) : Ge(traj[j].val.alt_km, Zero)

(***************************************************************************)
(* C6.  Once build_data is set on an instance, no later call (build,       *)
(* launch, set_launchpoint, set_aimpoint, a query) changes it.             *)
(***************************************************************************)
C6_BuildDataNeverChanges ==
    [][/\ Built("missile") => missile'.build_data = missile.build_data
       /\ Built("target") => target'.build_data = target.build_data
       /\ Built("interceptor") => interceptor'.build_data = interceptor.build_data]_vars

(***************************************************************************)
(* C7.  Once trajectory_data is set on an instance, a further launch()     *)
(* with the same or another stop time does not replace or change it.       *)
(***************************************************************************)
C7_TrajectoryNeverReplaced ==
    [][/\ Launched("missile") => missile'.trajectory_data = missile.trajectory_data
       /\ Launched("target") => target'.trajectory_data = target.trajectory_data
       /\ Launched("interceptor") =>
             interceptor'.trajectory_data = interceptor.trajectory_data]_vars

\* The flight time build() stored: total_time_to_target_sec of a ballistic
\* missile, interceptor_time_to_intercept_sec of an interceptor.
StoredFlightTime(who) ==
    IF who = "interceptor"
    THEN Obj(who).build_data.interceptor_time_to_intercept_sec
    ELSE Obj(who).build_data.total_time_to_target_sec

(***************************************************************************)
(* C8.  build() with a horizontal velocity of 0 or below raises and leaves *)
(* build_data None; the flight time stored in build_data is never          *)
(* infinite, NaN or negative.                                              *)
(***************************************************************************)
C8_NonPositiveVelocityBuildFails ==
    \A who \in Instances :
        /\ (LastCall("build", who)
            /\ IsFin(Obj(who).params.horizontal_velocity_km_sec)
            /\ Le(Obj(who).params.horizontal_velocity_km_sec, Zero))
           => (Raised /\ Unbuilt(who))
        /\ Built(who) =>
              (IsFin(StoredFlightTime(who)) /\ Ge(StoredFlightTime(who), Zero))

(***************************************************************************)
(* C9.  A build() of the interceptor that raises leaves it Unbuilt:        *)
(* build_data still None, AP_latlon_deg, intercept_position and            *)
(* intercept_time_sec unchanged, and a following launch() is rejected.     *)
(* Stated for a target that was built with a horizontal velocity above 0.  *)
(***************************************************************************)
C9_FailedBuildLeavesUnbuilt ==
    [][(/\ Unbuilt("interceptor")
        /\ Built("target") /\ Gt(target.build_data.horizontal_velocity_km_sec, Zero)
        /\ call'.op = "build" /\ call'.who = "interceptor" /\ call'.err # "none")
       => /\ interceptor'.build_data = None
          /\ interceptor'.AP_latlon_deg = interceptor.AP_latlon_deg
          /\ interceptor'.intercept_position = interceptor.intercept_position
          /\ interceptor'.intercept_time_sec = interceptor.intercept_time_sec
          /\ Interceptor_launch(interceptor', None).err # "none"]_vars

(***************************************************************************)
(* C10.  When intercept_distance_from_target_km is greater than the        *)
(* target's launchpoint_dist_to_target_km, build() of the interceptor      *)
(* raises and sets no build_data.  Stated for a target built with a        *)
(* horizontal velocity above 0 whose params hold a launch_time.            *)
(***************************************************************************)
C10_InterceptBeyondLaunchpointFails ==
    (/\ LastCall("build", "interceptor")
     /\ interceptor.targeted_missile # None
     /\ Built("target")
     /\ Gt(target.build_data.horizontal_velocity_km_sec, Zero)
     /\ target.params.launch_time # Absent
     /\ Gt(interceptor.params.intercept_distance_from_target_km,
           target.build_data.launchpoint_dist_to_target_km))
    => (Raised /\ interceptor.build_data = None)

\* The last call was a build() of the interceptor on a target that was built
\* with a horizontal velocity above 0 and holds a launch_time, with an
\* intercept point between the target's launchpoint and aimpoint.
BuildOnSoundTarget ==
    /\ LastCall("build", "interceptor")
    /\ interceptor.targeted_missile # None
    /\ Built("target")
    /\ Gt(target.build_data.horizontal_velocity_km_sec, Zero)
    /\ target.params.launch_time # Absent
    /\ Ge(interceptor.params.intercept_distance_from_target_km, Zero)
    /\ Le(interceptor.params.intercept_distance_from_target_km,
          target.build_data.launchpoint_dist_to_target_km)

(***************************************************************************)
(* C11.  When the interceptor's own time to intercept is greater than the  *)
(* intercept time since the target's launch, build() raises; build() never *)
(* sets params['launch_time'] earlier than the target's launch_time.       *)
(***************************************************************************)
C11_LateInterceptorBuildFails ==
    (BuildOnSoundTarget /\ Returned)
    => /\ Le(interceptor.build_data.interceptor_time_to_intercept_sec,
             interceptor.intercept_time_sec)
       /\ Ge(interceptor.params.launch_time, target.params.launch_time)

(***************************************************************************)
(* C12.  When the interceptor's derived time to intercept is zero or       *)
(* negative, build() raises an error other than the ValueError of a        *)
(* missing target and stores no build_data (no initial vertical velocity   *)
(* divided by that time).                                                  *)
(***************************************************************************)
C12_ZeroTimeToInterceptFails ==
    (/\ BuildOnSoundTarget
     /\ Built("interceptor")
     /\ IsFin(interceptor.build_data.interceptor_time_to_intercept_sec))
    => Gt(interceptor.build_data.interceptor_time_to_intercept_sec, Zero)

\* The launch time of the interceptor on the unrounded durations.
UnroundedLaunchTime ==
    Sub(Add(target.params.launch_time, interceptor.intercept_time_sec),
        interceptor.build_data.interceptor_time_to_intercept_sec)

(***************************************************************************)
(* C13 as stated.  After a successful build() of the interceptor,          *)
(* params['launch_time'] equals the target's launch_time plus              *)
(* intercept_time_sec minus interceptor_time_to_intercept_sec.             *)
(***************************************************************************)
C13_LaunchTimeIsExactDifference ==
    (BuildOnSoundTarget /\ Returned)
    => interceptor.params.launch_time = UnroundedLaunchTime

(***************************************************************************)
(* C13 amended.  After a successful build() of the interceptor,            *)
(* params['launch_time'] is within one microsecond (1/1000 of the time     *)
(* unit) of the target's launch_time plus intercept_time_sec minus         *)
(* interceptor_time_to_intercept_sec: timedelta rounds each of the two     *)
(* durations to a whole number of microseconds.                            *)
(***************************************************************************)
C13_LaunchTimeWithinMicrosecond ==
    (BuildOnSoundTarget /\ Returned)
    => /\ IsFin(interceptor.params.launch_time)
       /\ Le(AbsNum(Sub(interceptor.params.launch_time, UnroundedLaunchTime)),
             Rat(1, 1000))

C13_Witness ==
    /\ BuildOnSoundTarget
    /\ Returned
    /\ Gt(interceptor.build_data.interceptor_time_to_intercept_sec, Zero)
    /\ interceptor.params.launch_time # UnroundedLaunchTime

\* The last call was a build() of the interceptor that returned, and the
\* interceptor's own time to intercept is above 0.
InterceptorBuiltWithPositiveTime ==
    /\ LastCall("build", "interceptor")
    /\ Returned
    /\ Gt(interceptor.build_data.interceptor_time_to_intercept_sec, Zero)

C15_InterceptorLeavesTargetAlone ==
    [][(/\ call'.who = "interceptor"
        /\ call'.op \in {"set_intercept_target", "build", "launch"})
       => target' = target]_vars

C15_Witness ==
    /\ LastCall("launch", "interceptor")
    /\ Returned
    /\ interceptor.targeted_missile # None
    /\ Launched("interceptor")
    /\ Built("target")
    /\ Launched("target")

\* The BallisticMissile instances of the model.
BallisticInstances == {"missile", "target"}

\* The altitude that get_current_position reports for the ballistic missile
\* who at the elapsed time t.
AltitudeOf(who, t) == Ballistic_get_current_position(Obj(who), t).val.alt_km

\* The ballistic missile who is built with a total flight time above 0.
BuiltWithPositiveFlightTime(who) ==
    /\ Built(who)
    /\ Gt(Obj(who).build_data.total_time_to_target_sec, Zero)

(***************************************************************************)
(* C16.  For a built BallisticMissile with total flight time T > 0 the     *)
(* altitude is 0 at t = 0 and at t = T, and the altitude at t = T/2 is at  *)
(* least the altitude of every sample of its trajectory.                   *)
(***************************************************************************)
C16_ParabolaEndsAndApex ==
    \A who \in BallisticInstances :
        BuiltWithPositiveFlightTime(who) =>
            LET T == Obj(who).build_data.total_time_to_target_sec
            IN  /\ AltitudeOf(who, Zero) = Zero
                /\ AltitudeOf(who, T) = Zero
                /\ Launched(who) =>
                      \A j \in 1..Size(Obj(who).trajectory_data) :
                          Ge(AltitudeOf(who, Mul(Half, T)),
                             Items(Obj(who).trajectory_data)[j].val.alt_km)

\* The vertical velocity that compute_current_vertical_velocity reports for
\* the ballistic missile who at the elapsed time t.
VerticalVelocityOf(who, t) ==
    Ballistic_compute_current_vertical_velocity(Obj(who), t).val

\* The ground distance between the launchpoint of the ballistic missile who
\* and the position that get_current_position reports at the elapsed time t.
GroundDistanceOf(who, t) ==
    LET position == Ballistic_get_current_position(Obj(who), t).val
    IN  calculate_great_circle_distance(
            Obj(who).LP_latlon_deg.lat, Obj(who).LP_latlon_deg.lon,
            position.lat_deg, position.lon_deg)

\* The elapsed times at which a built ballistic missile is inspected: the
\* query times from 0 on and the quarter, half and whole of its flight time.
ElapsedTimesOf(who) ==
    LET T == Obj(who).build_data.total_time_to_target_sec
    IN  {t \in QueryTimes : Ge(t, Zero)}
            \cup {Mul(Rat(1, 4), T), Mul(Half, T), T}

(***************************************************************************)
(* C17.  For a built BallisticMissile with total flight time T, the ground *)
(* distance from the launchpoint at the elapsed time t is                  *)
(* horizontal_velocity * t, and the vertical velocity is v0 + g*t with     *)
(* v0 = (T/2)*|g|: above 0 for t < T/2, 0 at t = T/2, below 0 for t > T/2. *)
(***************************************************************************)
C17_ConstantHorizontalLinearVertical ==
    \A who \in BallisticInstances :
        Built(who) =>
            LET T == Obj(who).build_data.total_time_to_target_sec
                v0 == Obj(who).build_data.initial_vertical_velocity_km_sec
                hv == Obj(who).build_data.horizontal_velocity_km_sec
            IN  /\ v0 = Mul(Mul(Half, T), AbsNum(GRAVITY_ACCEL_KM_PER_S2))
                /\ VerticalVelocityOf(who, Mul(Half, T)) = Zero
                /\ \A t \in ElapsedTimesOf(who) :
                      (IsNaN(t) \/ Ge(t, Zero)) =>
                         /\ GroundDistanceOf(who, t) = Mul(hv, t)
                         /\ VerticalVelocityOf(who, t)
                                = Add(v0, Mul(GRAVITY_ACCEL_KM_PER_S2, t))
                         /\ Lt(t, Mul(Half, T)) => Gt(VerticalVelocityOf(who, t), Zero)
                         /\ Gt(t, Mul(Half, T)) => Lt(VerticalVelocityOf(who, t), Zero)

(***************************************************************************)
(* The angle conversion of utils_geo                                       *)
(*                                                                         *)
(* convert_trig_to_compass_angle works on binary floating-point numbers:   *)
(* every subtraction and every addition rounds its exact result to the     *)
(* nearest number with SignificandBits significant bits, ties to even.     *)
(* A double has 53 significant bits; the model keeps the rounding rule and *)
(* scales the number of bits down, so that the neighbours of 90 are        *)
(* 90 +- 1/8 where those of the double 90.0 are 90 +- 2^-46.               *)
(***************************************************************************)
SignificandBits == 10

\* The angles of the model span MaxTurns full turns in both directions.
MaxTurns == 1

Pow2(e) == IF e >= 0 THEN Num(2^e) ELSE Rat(1, 2^(-e))

ExponentRange == (-(SignificandBits + 8))..4

\* The exponent e at which the finite number q # 0 has a significand of
\* SignificandBits bits: 2^(SignificandBits-1) <= |q| / 2^e < 2^SignificandBits.
ExponentOf(q) ==
    CHOOSE e \in ExponentRange :
        /\ Le(Pow2(e + SignificandBits - 1), AbsNum(q))
        /\ Lt(AbsNum(q), Pow2(e + SignificandBits))

\* The floating-point number nearest to the exact value q, ties to even.
Float(q) ==
    IF ~IsFin(q) \/ q = Zero THEN q
    ELSE LET ulp == Pow2(ExponentOf(q))
             significand == RoundHalfEven(Div(AbsNum(q), ulp))
         IN  Mul(Num(SignInt(q.n)), Mul(significand, ulp))

\* The distance from the floating-point number a # 0 to its neighbours of
\* the same exponent.
Ulp(a) == Pow2(ExponentOf(a))

TruncInt(a) == IF a.n >= 0 THEN FloorInt(a) ELSE CeilInt(a)

\* x % y on floats: the remainder of the truncated division, which is exact
\* and has the sign of x, then y added to it, with rounding, when it is not
\* 0 and its sign differs from the sign of y.
FloatMod(x, y) ==
    IF ~IsFin(x) \/ ~IsFin(y) \/ y = Zero THEN NaN
    ELSE LET mod == Sub(x, Mul(Num(TruncInt(Div(x, y))), y))
         IN  IF mod # Zero /\ (Lt(y, Zero) # Lt(mod, Zero))
             THEN Float(Add(mod, y))
             ELSE mod

\* np.pi, the floating-point number nearest to pi (355/113 is within 3e-7).
np_pi == Float(Rat(355, 113))

\* Variant of convert_trig_to_compass_angle that does not reduce the angle
\* modulo the full turn.
convert_trig_to_compass_angle_NoWrap(trig_angle, radians) ==
    IF radians
    THEN Float(Sub(Float(Div(np_pi, Num(2))), trig_angle))
    ELSE Float(Sub(Num(90), trig_angle))

convert_trig_to_compass_angle(trig_angle, radians) ==
    IF radians
    THEN FloatMod(Float(Sub(Float(Div(np_pi, Num(2))), trig_angle)),
                  Float(Mul(Num(2), np_pi)))
    ELSE FloatMod(Float(Sub(Num(90), trig_angle)), Num(360))

\* The parameter radians has the default True.
convert_trig_to_compass_angle_default(trig_angle) ==
    convert_trig_to_compass_angle(trig_angle, TRUE)

\* Whole angles in steps of 30 degrees over MaxTurns turns either way.
WholeAngles == {Num(30 * k) : k \in (-(12 * MaxTurns))..(12 * MaxTurns)}

\* Angles next to 0 and 90 in floating point, and angles on half degrees.
FractionalAngles ==
    {Add(Num(x), Mul(Num(j), Ulp(Num(90)))) : x \in {0, 90}, j \in {-2, -1, 1, 2}}
        \cup {Rat(1, 2), Rat(-1, 2), Rat(181, 2)}

\* The quarter turns in radians.
RadianAngles == {Float(Mul(Rat(k, 2), np_pi)) : k \in 0..4}

Angles == WholeAngles \cup FractionalAngles \cup RadianAngles

AngleCall(op, trig_angle, radians, ret) ==
    Called(op, "utils_geo", [trig_angle |-> trig_angle, radians |-> radians],
           "none", ret)

InitGeo ==
    /\ missile = None
    /\ target = None
    /\ interceptor = None
    /\ \E a \in Angles : call = AngleCall("trig_angle", a, "unset", None)
    /\ main = None

\* convert_trig_to_compass_angle(trig_angle, radians=False)
GeoConvertDegrees ==
    /\ call.who = "utils_geo"
    /\ call' = AngleCall("convert_trig_to_compass_angle", call.arg.trig_angle, "False",
                         convert_trig_to_compass_angle(call.arg.trig_angle, FALSE))
    /\ UNCHANGED <<missile, target, interceptor, main>>

\* convert_trig_to_compass_angle(trig_angle, radians=True)
GeoConvertRadians ==
    /\ call.who = "utils_geo"
    /\ call' = AngleCall("convert_trig_to_compass_angle", call.arg.trig_angle, "True",
                         convert_trig_to_compass_angle(call.arg.trig_angle, TRUE))
    /\ UNCHANGED <<missile, target, interceptor, main>>

\* convert_trig_to_compass_angle(trig_angle)
GeoConvertDefault ==
    /\ call.who = "utils_geo"
    /\ call' = AngleCall("convert_trig_to_compass_angle", call.arg.trig_angle, "omitted",
                         convert_trig_to_compass_angle_default(call.arg.trig_angle))
    /\ UNCHANGED <<missile, target, interceptor, main>>

\* The last statement of calculate_initial_bearing on floats, from the
\* angle theta_deg = rad_to_deg(np.arctan2(y, x)): (theta_deg + 360) % 360.
NormalizeBearing(theta_deg) ==
    FloatMod(Float(Add(theta_deg, Num(360))), Num(360))

\* np.arctan2 returns an angle from -pi to pi, -180 to 180 degrees.
InArctan2Range(theta_deg) ==
    IsFin(theta_deg) /\ Le(Num(-180), theta_deg) /\ Le(theta_deg, Num(180))

\* calculate_initial_bearing on two points whose atan2 angle is the angle
\* of the state, in degrees.
GeoInitialBearing ==
    /\ call.who = "utils_geo"
    /\ InArctan2Range(call.arg.trig_angle)
    /\ call' = AngleCall("calculate_initial_bearing", call.arg.trig_angle, "unset",
                         NormalizeBearing(call.arg.trig_angle))
    /\ UNCHANGED <<missile, target, interceptor, main>>

NextGeo ==
    \/ GeoConvertDegrees
    \/ GeoConvertRadians
    \/ GeoConvertDefault
    \/ GeoInitialBearing

SpecGeo == InitGeo /\ [][NextGeo]_vars

\* The last call was a conversion with the unit flag radians.
Converted(radians) ==
    /\ call.op = "convert_trig_to_compass_angle"
    /\ call.arg.radians = radians

\* x modulo y > 0 in exact arithmetic.
ExactMod(x, y) == Sub(x, Mul(Num(FloorInt(Div(x, y))), y))

IsWhole(a) == IsFin(a) /\ a.d = 1

(***************************************************************************)
(* C18.  In degree mode convert_trig_to_compass_angle returns              *)
(* (90 - a) mod 360 and the result lies in [0, 360) for every angle a,     *)
(* negative angles and angles above 360 included; 0 -> 90, 90 -> 0,        *)
(* 180 -> 270, 270 -> 180 and 360 -> 90.                                   *)
(***************************************************************************)
C18_DegreeResultInRange ==
    Converted("False") =>
        LET a == call.arg.trig_angle
        IN  /\ Ge(call.ret, Zero)
            /\ Lt(call.ret, Num(360))
            /\ IsWhole(a) => call.ret = ExactMod(Sub(Num(90), a), Num(360))
            /\ a = Num(0) => call.ret = Num(90)
            /\ a = Num(90) => call.ret = Num(0)
            /\ a = Num(180) => call.ret = Num(270)
            /\ a = Num(270) => call.ret = Num(180)
            /\ a = Num(360) => call.ret = Num(90)

\* The angle a shifted by whole turns of 360 degrees, as a float.
Shifted(a, turns) == Float(Add(a, Num(360 * turns)))

\* No rounding happens on the way from the angle a to 90 - a, nor on the
\* way from a to the shifted angle and on to 90 minus the shifted angle.
ShiftIsExact(a, turns) ==
    /\ Float(Sub(Num(90), a)) = Sub(Num(90), a)
    /\ Shifted(a, turns) = Add(a, Num(360 * turns))
    /\ Float(Sub(Num(90), Shifted(a, turns))) = Sub(Num(90), Shifted(a, turns))

(***************************************************************************)
(* C19 as stated.  For every angle a the degree-mode result for a equals   *)
(* the result for a + 360 and the result for a - 360.                      *)
(***************************************************************************)
C19_PeriodicForEveryAngle ==
    Converted("False") =>
        \A turns \in {-1, 1} :
            call.ret = convert_trig_to_compass_angle(
                           Shifted(call.arg.trig_angle, turns), FALSE)

(***************************************************************************)
(* C19 amended.  For every angle a for which a + 360, 90 - a and           *)
(* 90 - (a + 360) are computed without rounding, the degree-mode result    *)
(* for a equals the result for a + 360; likewise for a - 360.  Every whole *)
(* number of degrees a with |a| + 450 <= 2^SignificandBits is such an      *)
(* angle.                                                                  *)
(***************************************************************************)
C19_PeriodicWhereExact ==
    Converted("False") =>
        \A turns \in {-1, 1} :
            /\ (/\ IsWhole(call.arg.trig_angle)
                /\ Le(Add(AbsNum(call.arg.trig_angle), Num(450)), Pow2(SignificandBits)))
               => ShiftIsExact(call.arg.trig_angle, turns)
            /\ ShiftIsExact(call.arg.trig_angle, turns) =>
                  call.ret = convert_trig_to_compass_angle(
                                 Shifted(call.arg.trig_angle, turns), FALSE)

C19_Witness ==
    /\ Converted("False")
    /\ Lt(call.arg.trig_angle, Zero)
    /\ ~IsWhole(call.arg.trig_angle)
    /\ ShiftIsExact(call.arg.trig_angle, 1)
    /\ ShiftIsExact(call.arg.trig_angle, -1)
    /\ call.ret = convert_trig_to_compass_angle(Shifted(call.arg.trig_angle, 1), FALSE)
    /\ call.ret = convert_trig_to_compass_angle(Shifted(call.arg.trig_angle, -1), FALSE)

(***************************************************************************)
(* C20.  Called with the angle alone, convert_trig_to_compass_angle takes  *)
(* the angle as degrees and returns (90 - a) mod 360: the call with 0      *)
(* returns 90.  Radians are used only when flagged.                        *)
(***************************************************************************)
C20_DefaultUnitIsDegrees ==
    Converted("omitted") =>
        /\ call.ret = convert_trig_to_compass_angle(call.arg.trig_angle, FALSE)
        /\ call.arg.trig_angle = Zero => call.ret = Num(90)

\* The keys of a trajectory sample.
SampleKeys == {"lat_deg", "lon_deg", "alt_km", "bearing_deg", "tilt_deg", "roll_deg"}

(***************************************************************************)
(* C24.  Every sample that launch() stores in trajectory_data, of a        *)
(* BallisticMissile and of a TerminalInterceptor, carries lat_deg,         *)
(* lon_deg, alt_km, bearing_deg, tilt_deg and roll_deg, and roll_deg is 0. *)
(***************************************************************************)
C24_SamplesCompleteRollZero ==
    \A who \in Instances :
        Launched(who) =>
            \A j \in 1..Size(Obj(who).trajectory_data) :
                LET sample == Items(Obj(who).trajectory_data)[j].val
                IN  /\ DOMAIN sample = SampleKeys
                    /\ sample.roll_deg = Zero

C24_Witness ==
    /\ Launched("target")
    /\ Launched("interceptor")
    /\ Size(target.trajectory_data) > 1
    /\ Size(interceptor.trajectory_data) > 1
    /\ \A j \in 1..Size(interceptor.trajectory_data) :
           Items(interceptor.trajectory_data)[j].val.roll_deg = Zero

\* The interceptor has no target yet, or its target is not built.
NoBuiltTarget ==
    \/ interceptor.targeted_missile = None
    \/ ~Built("target")

(***************************************************************************)
(* C25.  build() of the interceptor called before set_intercept_target(),  *)
(* or on a target that is not built, raises and leaves the interceptor as  *)
(* it was: build_data, AP_latlon_deg, intercept_time_sec,                  *)
(* intercept_position and params.                                          *)
(***************************************************************************)
C25_BuildWithoutTargetChangesNothing ==
    [][(/\ call'.op = "build"
        /\ call'.who = "interceptor"
        /\ NoBuiltTarget)
       => /\ call'.err # "none"
          /\ interceptor' = interceptor]_vars

C25_Witness ==
    /\ LastCall("build", "interceptor")
    /\ call.err \in {"ValueError", "TypeError"}
    /\ NoBuiltTarget
    /\ interceptor.AP_latlon_deg # None
    /\ interceptor.build_data = None
    /\ interceptor.intercept_time_sec = None

\* The stop time that the launch() recorded in the call record c worked with
\* on the instance self: its argument, or the flight time of build_data.
StopTimeOf(c, self, who) ==
    IF c.arg # None THEN c.arg
    ELSE IF who = "interceptor"
         THEN self.build_data.interceptor_time_to_intercept_sec
         ELSE self.build_data.total_time_to_target_sec

\* The sample that the instance self yields at the elapsed time t.
SampleAt(self, who, t) ==
    IF who = "interceptor" THEN Interceptor_sample(self, t).val
    ELSE Ballistic_sample(self, t).val

\* The trajectory of self holds, under the stop time rounded to three
\* digits, the sample final.
HoldsFinalSample(self, final_key, final) ==
    \E j \in 1..Size(self.trajectory_data) :
        /\ Items(self.trajectory_data)[j].key = final_key
        /\ Items(self.trajectory_data)[j].val = final

\* The instance self as a launch() recorded in the call record c left it has
\* a trajectory with the final sample at the stop time.
LaunchedWithFinalSample(c, self, who) ==
    /\ self.trajectory_data # None
    /\ HoldsFinalSample(self, Round3(StopTimeOf(c, self, who)),
                        SampleAt(self, who, StopTimeOf(c, self, who)))

(***************************************************************************)
(* C27.  launch() is all-or-nothing: when it raises, trajectory_data (and  *)
(* the whole instance) keeps the value it had before the call, and a       *)
(* trajectory_data that launch() assigned holds the final sample at the    *)
(* stop time.                                                              *)
(***************************************************************************)
C27_LaunchAllOrNothing ==
    [][\A who \in Instances :
          (call'.op = "launch" /\ call'.who = who) =>
              /\ call'.err # "none" => Obj(who)' = Obj(who)
              /\ call'.err = "none" => LaunchedWithFinalSample(call', Obj(who)', who)]_vars

C27_Witness ==
    \E who \in Instances :
        /\ LastCall("launch", who)
        /\ Raised
        /\ Launched(who)
        /\ Size(Obj(who).trajectory_data) > 1

(***************************************************************************)
(* C28.  In every reachable state of a BallisticMissile or                 *)
(* TerminalInterceptor trajectory_data is set only if build_data is set:   *)
(* no instance is Launched without being Built.                            *)
(***************************************************************************)
C28_LaunchedOnlyIfBuilt ==
    \A who \in Instances : Launched(who) => Built(who)

C28_Witness ==
    \E who \in Instances :
        /\ Launched(who)
        /\ Built(who)
        /\ LastCall("set_launchpoint", who)

\* The launchpoint distance that build_data of who holds.
StoredLaunchpointDistance(who) ==
    IF who = "interceptor"
    THEN Obj(who).build_data.launchpoint_ground_dist_to_intercept_km
    ELSE Obj(who).build_data.launchpoint_dist_to_target_km

(***************************************************************************)
(* C29.  In every reachable state where build_data is set, the launchpoint *)
(* distance and the launchpoint bearing it holds are the great-circle      *)
(* distance and the initial bearing between the current LP_latlon_deg and  *)
(* the current AP_latlon_deg, also after set_launchpoint() or              *)
(* set_aimpoint() on a built instance.                                     *)
(***************************************************************************)
C29_BuildDataMatchesEndpoints ==
    \A who \in Instances :
        Built(who) =>
            /\ Obj(who).AP_latlon_deg # None
            /\ StoredLaunchpointDistance(who)
                   = compute_distance_to_target(Obj(who), Obj(who).LP_latlon_deg).val
            /\ Obj(who).build_data.launchpoint_bearing_deg
                   = compute_bearing(Obj(who), Obj(who).LP_latlon_deg).val

\* The keys of trajectory_data at which create_kml_trajectory looks up the
\* previous sample, trajectory_data[time_idx - timestep_sec], and finds no
\* such key: the lookup raises KeyError there.
FailingPreviousLookups(self) ==
    LET d == self.trajectory_data
        keys == {Items(d)[j].key : j \in 1..Size(d)}
    IN  {time_idx \in keys :
            /\ \E other \in keys : Lt(other, time_idx)
            /\ ~HasKey(d, Sub(time_idx, self.params.timestep_sec))}

(***************************************************************************)
(* C30.  Every trajectory produced by launch() can be converted by         *)
(* create_kml_trajectory: for every key of trajectory_data other than the  *)
(* smallest one, key - params['timestep_sec'] is a key as well, also for   *)
(* the final stop-time key when the stop time is no multiple of the        *)
(* timestep.                                                               *)
(***************************************************************************)
C30_PreviousSampleIsAKey ==
    \A who \in Instances :
        Launched(who) => FailingPreviousLookups(Obj(who)) = {}

(***************************************************************************)
(* main() (src/src/main.py) for one group of the configuration             *)
(*                                                                         *)
(* missile and interceptor are the locals of main(): the ballistic missile *)
(* of the current iteration and the interceptor of the current inner       *)
(* iteration.  main holds the configuration, the two loop positions, the   *)
(* local missile_intercept_time and the calls made so far.  An exception   *)
(* raised by a call ends main().                                           *)
(***************************************************************************)
\* The reference to the ballistic missile held in the variable missile.
MissileRef == [ref |-> "missile"]

\* KMLTrajectoryConverter.create_kml_trajectory(kml_document): called with
\* any other number of arguments it raises TypeError; otherwise it walks the
\* trajectory and raises KeyError at a key whose previous sample is missing.
KMLTrajectoryConverter_create_kml_trajectory(self, args) ==
    IF Len(args) # 1 THEN Raise("TypeError")
    ELSE IF self.trajectory_data = None THEN Raise("AttributeError")
    ELSE IF FailingPreviousLookups(self) # {} THEN Raise("KeyError")
    ELSE Ok(args[1])

\* Missile.create_kml_trajectory(kml_document, folder_name, traj_color,
\* traj_width=2): three or four arguments, or TypeError; it passes
\* kml_document, folder_name, traj_color and traj_width on to the converter.
Missile_create_kml_trajectory(self, args) ==
    IF Len(args) < 3 \/ Len(args) > 4 THEN Raise("TypeError")
    ELSE KMLTrajectoryConverter_create_kml_trajectory(
             self, <<args[1], args[2], args[3], IF Len(args) = 4 THEN args[4] ELSE 2>>)

\* The names of the ballistic missiles of a configuration.
MissileNames == {"m1", "m2"}

\* One row of the sheet 'ballistic'.
BallisticSim(name) ==
    [missile_name |-> name,
     horizontal_velocity_km_sec |-> Num(3), timestep_sec |-> Num(1),
     launch_time |-> Num(0),
     LP_latlon_deg |-> LatLon(0), AP_latlon_deg |-> LatLon(LatStep)]

\* One row of the sheet 'interceptor': intercept_missile_name holds the
\* names of the missiles it is to intercept.
InterceptorSim(name, targets, dist) ==
    [interceptor_name |-> name, intercept_missile_name |-> targets,
     horizontal_velocity_km_sec |-> Num(1), timestep_sec |-> Num(1),
     launch_time |-> Absent, intercept_distance_from_target_km |-> Num(dist),
     LP_latlon_deg |-> LatLon(LatStep)]

BallisticSheets == {<<BallisticSim("m1")>>, <<BallisticSim("m1"), BallisticSim("m2")>>}

InterceptorRows(name) ==
    {InterceptorSim(name, targets, dist) :
        targets \in {{"m1"}, {"m2"}, {"m1", "m2"}}, dist \in {1, 2}}

InterceptorSheets ==
    {<<>>} \cup {<<a>> : a \in InterceptorRows("i1")}
           \cup {<<a, b>> : a \in InterceptorRows("i1"), b \in InterceptorRows("i2")}

\* main() at its first statement inside the group loop.
MainFrame(ballistic, interceptors) ==
    [pc |-> "ballistic_loop",
     config_ballistic |-> ballistic,
     config_interceptor |-> interceptors,
     sim |-> 1,
     interceptor_sim |-> 1,
     missile_intercept_time |-> None,
     calls |-> <<>>]

\* The frame after the call op(arg) on the instance who, which raised err
\* ("none" when it returned): the call joins the calls made, together with
\* the name of the ballistic missile of the current iteration, and an
\* exception ends main().
AfterCall(frame, op, who, arg, err) ==
    [frame EXCEPT !.calls = Append(@, [op |-> op, who |-> who, arg |-> arg, err |-> err,
                                       sim |-> frame.config_ballistic[frame.sim].missile_name]),
                  !.pc = IF err # "none" THEN "raised" ELSE @]

InitMain ==
    /\ missile = None
    /\ target = None
    /\ interceptor = None
    /\ call = Called("main", "main", None, "none", None)
    /\ \E ballistic \in BallisticSheets, interceptors \in InterceptorSheets :
          main = MainFrame(ballistic, interceptors)

\* Lines 26-29: the next ballistic missile is constructed and built.
MainBuildMissile ==
    /\ main.pc = "ballistic_loop"
    /\ \E params \in {main.config_ballistic[main.sim]} :
       \E r \in {Ballistic_build(NewBallisticMissile(
                     params, params.LP_latlon_deg, params.AP_latlon_deg))} :
          /\ missile' = r.val
          /\ call' = Called("build", params.missile_name, None, r.err, None)
          /\ main' = [AfterCall(main, "build", params.missile_name, None, r.err)
                         EXCEPT !.pc = IF r.err # "none" THEN "raised"
                                       ELSE "interceptor_loop",
                                !.interceptor_sim = 1,
                                !.missile_intercept_time = None]
    /\ UNCHANGED <<target, interceptor>>

\* Lines 33-36 for the interceptor params: construction,
\* set_intercept_target(missile), build() and launch().
InterceptorBuiltAndLaunched(params, targeted) ==
    LET aimed == set_intercept_target(
                     NewTerminalInterceptor(params, params.LP_latlon_deg), MissileRef)
        built == Interceptor_build(aimed, targeted)
    IN  IF built.err # "none" THEN [op |-> "build", err |-> built.err, val |-> built.val]
        ELSE [op |-> "launch",
              err |-> Interceptor_launch(built.val, None).err,
              val |-> Interceptor_launch(built.val, None).val]

\* min(missile_intercept_time, intercept_time_sec), or intercept_time_sec
\* while missile_intercept_time is None (lines 42-47).
EarliestInterceptTime(missile_intercept_time, intercept_time_sec) ==
    IF missile_intercept_time = None THEN intercept_time_sec
    ELSE IF Lt(intercept_time_sec, missile_intercept_time) THEN intercept_time_sec
    ELSE missile_intercept_time

\* The frame after the calls of lines 33-41 on the interceptor named who,
\* of which the last one, op, raised err.
AfterInterceptorCalls(frame, who, op, err) ==
    LET set == AfterCall(frame, "set_intercept_target", who, MissileRef, "none")
        built == AfterCall(set, "build", who, None, IF op = "build" THEN err ELSE "none")
        launched == AfterCall(built, "launch", who, None,
                              IF op = "launch" THEN err ELSE "none")
    IN  IF op = "build" THEN built
        ELSE IF op = "launch" THEN launched
        ELSE AfterCall(launched, "create_kml_trajectory", who, None, err)

\* Lines 31-47: one iteration of the loop over the interceptors.  An
\* interceptor that does not name the missile is skipped; one that does is
\* constructed, aimed, built, launched and converted to KML with the
\* arguments (kml, interceptor_name), and then its intercept time is taken
\* into missile_intercept_time.
MainInterceptor ==
    /\ main.pc = "interceptor_loop"
    /\ main.interceptor_sim <= Len(main.config_interceptor)
    /\ \E params \in {main.config_interceptor[main.interceptor_sim]} :
          IF main.config_ballistic[main.sim].missile_name \notin params.intercept_missile_name
          THEN /\ main' = [main EXCEPT !.interceptor_sim = @ + 1]
               /\ UNCHANGED <<interceptor, call>>
          ELSE \E r \in {InterceptorBuiltAndLaunched(params, missile)} :
               \E kml \in {IF r.err # "none" THEN r
                           ELSE [op |-> "create_kml_trajectory",
                                 err |-> Missile_create_kml_trajectory(
                                             r.val, <<"kml", params.interceptor_name>>).err,
                                 val |-> r.val]} :
                  /\ interceptor' = kml.val
                  /\ call' = Called(kml.op, params.interceptor_name, None, kml.err, None)
                  /\ main' = [AfterInterceptorCalls(main, params.interceptor_name,
                                                    kml.op, kml.err)
                                 EXCEPT !.interceptor_sim = @ + 1,
                                        !.missile_intercept_time =
                                            IF kml.err # "none" THEN @
                                            ELSE EarliestInterceptTime(
                                                     @, kml.val.intercept_time_sec)]
    /\ UNCHANGED <<missile, target>>

\* Lines 49-53, after the loop over the interceptors: the missile is
\* launched, up to missile_intercept_time when that is set, and converted to
\* KML with the arguments (kml, missile_name); main() then goes on to the
\* next ballistic missile or, after the last one, saves the KML and returns.
MainLaunchMissile ==
    /\ main.pc = "interceptor_loop"
    /\ main.interceptor_sim > Len(main.config_interceptor)
    /\ \E who \in {main.config_ballistic[main.sim].missile_name} :
       \E r \in {Ballistic_launch(missile, main.missile_intercept_time)} :
       \E kml \in {IF r.err # "none" THEN Raise(r.err)
                   ELSE Missile_create_kml_trajectory(r.val, <<"kml", who>>)} :
          /\ missile' = r.val
          /\ call' = IF r.err # "none"
                     THEN Called("launch", who, main.missile_intercept_time, r.err, None)
                     ELSE Called("create_kml_trajectory", who, None, kml.err, None)
          /\ main' = [(IF r.err # "none"
                       THEN AfterCall(main, "launch", who, main.missile_intercept_time, r.err)
                       ELSE AfterCall(AfterCall(main, "launch", who,
                                                main.missile_intercept_time, "none"),
                                      "create_kml_trajectory", who, None, kml.err))
                         EXCEPT !.pc = IF kml.err # "none" THEN "raised"
                                       ELSE IF main.sim < Len(main.config_ballistic)
                                       THEN "ballistic_loop"
                                       ELSE "returned",
                                !.sim = IF kml.err # "none" THEN @ ELSE @ + 1]
    /\ UNCHANGED <<target, interceptor>>

NextMain ==
    \/ MainBuildMissile
    \/ MainInterceptor
    \/ MainLaunchMissile

SpecMain == InitMain /\ [][NextMain]_vars

\* main() has ended: it returned or an exception left it.
MainEnded == main.pc \in {"returned", "raised"}

\* The position among the calls made of the call op on who that returned
\* during the iteration for the ballistic missile sim; 0 when there is none.
PositionOf(op, who, sim) ==
    LET hits == {n \in 1..Len(main.calls) :
                    /\ main.calls[n].op = op
                    /\ main.calls[n].who = who
                    /\ main.calls[n].sim = sim
                    /\ main.calls[n].err = "none"}
    IN  IF hits = {} THEN 0 ELSE CHOOSE n \in hits : \A other \in hits : n <= other

\* The rows of the sheet 'interceptor' that name the missile sim.
Targeting(sim) ==
    {row \in {main.config_interceptor[j] : j \in 1..Len(main.config_interceptor)} :
        sim \in row.intercept_missile_name}

\* The intercept time of the interceptor row on the missile params:
\* (launchpoint distance to target - intercept distance) / velocity.
InterceptTimeOf(row, params) ==
    Div(Sub(calculate_great_circle_distance(
                params.LP_latlon_deg.lat, params.LP_latlon_deg.lon,
                params.AP_latlon_deg.lat, params.AP_latlon_deg.lon),
            row.intercept_distance_from_target_km),
        params.horizontal_velocity_km_sec)

\* The calls made so far on the missile params and on its interceptors are
\* in order: its build() before every call on an interceptor that targets
\* it, every such interceptor built before it is launched, and the missile
\* launched only after all of them were launched, up to the earliest
\* intercept time, or with no stop time when no interceptor targets it.
CallsInOrder(params) ==
    LET sim == params.missile_name
        launched == PositionOf("launch", sim, sim)
    IN  /\ \A row \in Targeting(sim) :
              LET built == PositionOf("build", row.interceptor_name, sim)
                  flown == PositionOf("launch", row.interceptor_name, sim)
              IN  /\ built > 0 => (PositionOf("build", sim, sim) > 0
                                   /\ PositionOf("build", sim, sim) < built)
                  /\ flown > 0 => (built > 0 /\ built < flown)
                  /\ launched > 0 => (flown > 0 /\ flown < launched)
        /\ launched > 0 =>
              /\ PositionOf("build", sim, sim) > 0
              /\ PositionOf("build", sim, sim) < launched
              /\ Targeting(sim) = {} => main.calls[launched].arg = None
              /\ Targeting(sim) # {} =>
                    /\ \E row \in Targeting(sim) :
                          main.calls[launched].arg = InterceptTimeOf(row, params)
                    /\ \A row \in Targeting(sim) :
                          Le(main.calls[launched].arg, InterceptTimeOf(row, params))

(***************************************************************************)
(* C26.  In main(), every ballistic missile is built before the            *)
(* interceptors that target it are built, is launched after all those      *)
(* interceptors were built and launched, and is launched up to the         *)
(* earliest intercept_time_sec of those interceptors, or for its full      *)
(* flight time when no interceptor targets it.                             *)
(***************************************************************************)
C26_MainBuildsThenLaunchesMissiles ==
    /\ \A k \in 1..Len(main.config_ballistic) : CallsInOrder(main.config_ballistic[k])
    /\ MainEnded =>
          \A k \in 1..Len(main.config_ballistic) :
              /\ PositionOf("launch", main.config_ballistic[k].missile_name,
                            main.config_ballistic[k].missile_name) > 0
              /\ \A row \in Targeting(main.config_ballistic[k].missile_name) :
                    PositionOf("launch", row.interceptor_name,
                               main.config_ballistic[k].missile_name) > 0

\* A bearing in degrees of the half-open range [0, 360).
IsCompassBearing(bearing_deg) ==
    IsFin(bearing_deg) /\ Le(Zero, bearing_deg) /\ Lt(bearing_deg, Num(360))

\* The normalisation of calculate_initial_bearing takes every angle atan2
\* can return, -180 and 180 and the floats next to 0 included, into
\* [0, 360): a sum that rounds to 360.0 is reduced to 0.
InitialBearingInRange ==
    call.op = "calculate_initial_bearing" => IsCompassBearing(call.ret)

Limb == 1000

\* The number 1.
FixedOne == Limb * Limb

\* The product of two non-negative numbers, rounded.
FixMulMag(a, b) ==
    (a \div Limb) * (b \div Limb)
        + ((a \div Limb) * (b % Limb) + (a % Limb) * (b \div Limb)
           + ((a % Limb) * (b % Limb)) \div Limb + Limb \div 2) \div Limb

\* a * b
FixMul(a, b) == SignInt(a) * SignInt(b) * FixMulMag(AbsInt(a), AbsInt(b))

\* a / n for a whole number n > 0
FixDiv(a, n) == SignInt(a) * ((AbsInt(a) + n \div 2) \div n)

\* The sine and cosine are summed from their power series up to the term
\* of index SeriesTerms.
SeriesTerms == 10

\* np.pi / 180, in units of 10^-8, and np.pi.
PiOver180 == 1745329

FixedPi == 3141593

EARTH_RADIUS_KM == 6378

\* Variant of deg_to_rad with 22/7 for pi: (22/7) / 180 = 0.01746032.
deg_to_rad_PiAs22Over7(degrees) == FixMul(degrees, 1746032)

\* degrees * np.pi / 180
deg_to_rad(degrees) == FixMul(degrees, PiOver180)

\* The sum of the terms k-1, k, ... of the series whose term k-1 is term and
\* whose next term is -term * x2 / ((2k - 1 + odd) * (2k + odd)).
RECURSIVE Series(_, _, _, _, _)
Series(term, x2, k, odd, sum) ==
    IF k > SeriesTerms THEN sum + term
    ELSE Series(-FixDiv(FixMul(term, x2), (2 * k - 1 + odd) * (2 * k + odd)),
                x2, k + 1, odd, sum + term)

np_sin(x) == Series(x, FixMul(x, x), 1, 1, 0)

np_cos(x) == Series(FixedOne, FixMul(x, x), 1, 0, 0)

\* The least r from lo to hi with r * r >= a.
RECURSIVE SqrtSearch(_, _, _)
SqrtSearch(a, lo, hi) ==
    IF lo >= hi THEN lo
    ELSE IF FixMul((lo + hi) \div 2, (lo + hi) \div 2) >= a
         THEN SqrtSearch(a, lo, (lo + hi) \div 2)
         ELSE SqrtSearch(a, (lo + hi) \div 2 + 1, hi)

\* np.sqrt(a) of a number from 0 to 4.
np_sqrt(a) == SqrtSearch(a, 0, 2 * FixedOne)

\* The greatest angle t from lo to hi that the direction (x, y), y >= 0, is
\* not to the right of: y * cos(t) - x * sin(t) >= 0.
RECURSIVE ArcSearch(_, _, _, _)
ArcSearch(y, x, lo, hi) ==
    IF lo >= hi THEN lo
    ELSE IF FixMul(y, np_cos((lo + hi + 1) \div 2))
                - FixMul(x, np_sin((lo + hi + 1) \div 2)) >= 0
         THEN ArcSearch(y, x, (lo + hi + 1) \div 2, hi)
         ELSE ArcSearch(y, x, lo, (lo + hi + 1) \div 2 - 1)

\* np.arctan2(y, x): the angle of the direction (x, y), from -pi to pi.
np_arctan2(y, x) ==
    IF y < 0 THEN -ArcSearch(-y, x, 0, FixedPi)
    ELSE IF y = 0 /\ x = 0 THEN 0
    ELSE ArcSearch(y, x, 0, FixedPi)

\* Variant of the haversine that takes the cosine of the origin's latitude
\* twice.
haversine_a_OriginCosineTwice(origin_lat_rad, origin_lon_rad, dest_lat_rad, dest_lon_rad) ==
    FixMul(np_sin(FixDiv(dest_lat_rad - origin_lat_rad, 2)),
           np_sin(FixDiv(dest_lat_rad - origin_lat_rad, 2)))
        + FixMul(FixMul(np_cos(origin_lat_rad), np_cos(origin_lat_rad)),
                 FixMul(np_sin(FixDiv(dest_lon_rad - origin_lon_rad, 2)),
                        np_sin(FixDiv(dest_lon_rad - origin_lon_rad, 2))))

\* The haversine of the angular distance.
haversine_a(origin_lat_rad, origin_lon_rad, dest_lat_rad, dest_lon_rad) ==
    FixMul(np_sin(FixDiv(dest_lat_rad - origin_lat_rad, 2)),
           np_sin(FixDiv(dest_lat_rad - origin_lat_rad, 2)))
        + FixMul(FixMul(np_cos(origin_lat_rad), np_cos(dest_lat_rad)),
                 FixMul(np_sin(FixDiv(dest_lon_rad - origin_lon_rad, 2)),
                        np_sin(FixDiv(dest_lon_rad - origin_lon_rad, 2))))

\* EARTH_RADIUS_KM * ang_dist_rad, in metres.
DistanceOfAngle(ang_dist_rad) == FixMul(EARTH_RADIUS_KM * Limb, ang_dist_rad)

\* 2 * np.arctan2(np.sqrt(a), np.sqrt(1-a))
AngleOfHaversine(a) == 2 * np_arctan2(np_sqrt(a), np_sqrt(FixedOne - a))

\* calculate_great_circle_distance by the haversine formula.
calculate_great_circle_distance_haversine(origin_lat_deg, origin_lon_deg, dest_lat_deg, dest_lon_deg) ==
    DistanceOfAngle(AngleOfHaversine(haversine_a(
        deg_to_rad(origin_lat_deg), deg_to_rad(origin_lon_deg),
        deg_to_rad(dest_lat_deg), deg_to_rad(dest_lon_deg))))

NVector(lat_rad, lon_rad) ==
    <<FixMul(np_cos(lat_rad), np_cos(lon_rad)),
      FixMul(np_cos(lat_rad), np_sin(lon_rad)),
      np_sin(lat_rad)>>

convert_latlon_to_nvector(lat_deg, lon_deg) ==
    NVector(deg_to_rad(lat_deg), deg_to_rad(lon_deg))

np_cross(u, v) ==
    <<FixMul(u[2], v[3]) - FixMul(u[3], v[2]),
      FixMul(u[3], v[1]) - FixMul(u[1], v[3]),
      FixMul(u[1], v[2]) - FixMul(u[2], v[1])>>

np_dot(u, v) == FixMul(u[1], v[1]) + FixMul(u[2], v[2]) + FixMul(u[3], v[3])

np_linalg_norm(u) == np_sqrt(np_dot(u, u))

\* np.arctan2(np.linalg.norm(np.cross(u, v)), np.dot(u, v))
AngleOfVectors(origin_vector, dest_vector) ==
    np_arctan2(np_linalg_norm(np_cross(origin_vector, dest_vector)),
               np_dot(origin_vector, dest_vector))

calculate_great_circle_distance_vec(origin_lat_deg, origin_lon_deg, dest_lat_deg, dest_lon_deg) ==
    DistanceOfAngle(AngleOfVectors(
        convert_latlon_to_nvector(origin_lat_deg, origin_lon_deg),
        convert_latlon_to_nvector(dest_lat_deg, dest_lon_deg)))

\* A named place, its coordinates in ten-thousandths of a degree.
Place(name, lat_deg, lon_deg) == [name |-> name, lat_deg |-> lat_deg, lon_deg |-> lon_deg]

\* latlon_deg_dict of the tests
Cities ==
    {Place("Denver", 397392, -1049903), Place("Amman", 319539, 359106),
     Place("Sydney", -338688, 1512093), Place("Santiago", -334489, -706693)}

\* Further places: on the equator, at the North Pole, and in between.
OtherPlaces ==
    {Place("Null", 0, 0), Place("Pole", 900000, 0), Place("East", 0, 900000),
     Place("Mid", 450000, 450000), Place("Far", -600000, 1200000)}

Places == Cities \cup OtherPlaces

\* distances_km_dict of the tests: the reference distance of the route
\* between two cities, the same in both directions.
distances_km_dict(origin, dest) ==
    LET route == {origin, dest}
    IN  IF route = {"Denver", "Amman"} THEN 11076
        ELSE IF route = {"Denver", "Sydney"} THEN 13398
        ELSE IF route = {"Denver", "Santiago"} THEN 8865
        ELSE IF route = {"Amman", "Sydney"} THEN 14067
        ELSE IF route = {"Amman", "Santiago"} THEN 13289
        ELSE 11340

RouteCall(op, origin, dest, ret) ==
    Called(op, "utils_geo", [origin |-> origin, dest |-> dest], "none", ret)

InitRoutes ==
    /\ missile = None
    /\ target = None
    /\ interceptor = None
    /\ \E origin \in Places, dest \in Places :
          call = RouteCall("route", origin, dest, None)
    /\ main = None

\* calculate_great_circle_distance(origin, dest)
GeoDistance ==
    /\ call.who = "utils_geo"
    /\ call' = RouteCall("calculate_great_circle_distance",
                         call.arg.origin, call.arg.dest,
                         calculate_great_circle_distance_haversine(
                             call.arg.origin.lat_deg, call.arg.origin.lon_deg,
                             call.arg.dest.lat_deg, call.arg.dest.lon_deg))
    /\ UNCHANGED <<missile, target, interceptor, main>>

\* calculate_great_circle_distance_vec(origin, dest)
GeoDistanceVec ==
    /\ call.who = "utils_geo"
    /\ call' = RouteCall("calculate_great_circle_distance_vec",
                         call.arg.origin, call.arg.dest,
                         calculate_great_circle_distance_vec(
                             call.arg.origin.lat_deg, call.arg.origin.lon_deg,
                             call.arg.dest.lat_deg, call.arg.dest.lon_deg))
    /\ UNCHANGED <<missile, target, interceptor, main>>

NextRoutes ==
    \/ GeoDistance
    \/ GeoDistanceVec

SpecRoutes == InitRoutes /\ [][NextRoutes]_vars

\* The last call was a call of the distance function op.
Measured(op) == call.op = op

(***************************************************************************)
(* C22.  calculate_great_circle_distance is symmetric: the distance from a *)
(* to b equals the distance from b to a, for every pair of points.         *)
(***************************************************************************)
C22_DistanceSymmetric ==
    Measured("calculate_great_circle_distance") =>
        call.ret = calculate_great_circle_distance_haversine(
                       call.arg.dest.lat_deg, call.arg.dest.lon_deg,
                       call.arg.origin.lat_deg, call.arg.origin.lon_deg)

\* The distance between two places that differ in latitude and in longitude
\* and lie in different hemispheres was computed and is positive.
C22_Witness ==
    /\ Measured("calculate_great_circle_distance")
    /\ call.arg.origin.name = "Denver"
    /\ call.arg.dest.name = "Far"
    /\ call.ret > 0

\* margin_of_error_actual <= margin_of_error_allowed = 0.002, for a distance
\* in metres and a reference distance in kilometres.
WithinMarginOfError(calculated_dist_m, actual_dist_km) ==
    AbsInt(calculated_dist_m - Limb * actual_dist_km) <= 2 * actual_dist_km

\* Two distances differ by at most 0.1% of the smaller.
AgreeWithinPerMille(dist_m, other_m) ==
    AbsInt(dist_m - other_m) <= (IF dist_m < other_m THEN dist_m ELSE other_m) \div 1000

\* The last call measured a route between two distinct cities of the tests.
CityRouteMeasured ==
    /\ call.op \in {"calculate_great_circle_distance", "calculate_great_circle_distance_vec"}
    /\ call.arg.origin \in Cities
    /\ call.arg.dest \in Cities
    /\ call.arg.origin # call.arg.dest

\* What the distance function that was not called returns for the route.
OtherDistance ==
    IF Measured("calculate_great_circle_distance")
    THEN calculate_great_circle_distance_vec(
             call.arg.origin.lat_deg, call.arg.origin.lon_deg,
             call.arg.dest.lat_deg, call.arg.dest.lon_deg)
    ELSE calculate_great_circle_distance_haversine(
             call.arg.origin.lat_deg, call.arg.origin.lon_deg,
             call.arg.dest.lat_deg, call.arg.dest.lon_deg)

(***************************************************************************)
(* C23.  For every ordered pair of distinct cities among Denver, Amman,    *)
(* Sydney and Santiago, the haversine distance and the n-vector distance   *)
(* are both within 0.2% of the route's reference distance, and they agree  *)
(* with each other within 0.1%.                                            *)
(***************************************************************************)
C23_CityDistancesWithinMargin ==
    CityRouteMeasured =>
        /\ WithinMarginOfError(call.ret, distances_km_dict(call.arg.origin.name,
                                                           call.arg.dest.name))
        /\ AgreeWithinPerMille(call.ret, OtherDistance)

\* The n-vector distance from Sydney to Santiago was computed; it exceeds
\* the reference distance and differs from the haversine distance.
C23_Witness ==
    /\ Measured("calculate_great_circle_distance_vec")
    /\ call.arg.origin.name = "Sydney"
    /\ call.arg.dest.name = "Santiago"
    /\ call.ret > Limb * distances_km_dict("Sydney", "Santiago")
    /\ call.ret # OtherDistance

====
